---- MODULE Spec2Model ----
(***************************************************************************)
(* Sistema de Controle de Gastos Residenciais: the ASP.NET Core back end   *)
(* (PessoasController, CategoriasController, TransacoesController,         *)
(* RelatoriosController) over the SQLite store described by AppDbContext,  *)
(* and the transaction form of the React front end (TransacoesManager).    *)
(*                                                                         *)
(* Amounts (decimal(18,2)) are whole numbers of cents.  A string of a      *)
(* request (Nome, Descricao, Tipo, Finalidade) is a sequence of            *)
(* characters, each a one-character string; messages are TLA+ strings.     *)
(*                                                                         *)
(* A handler is one step per awaited store access (FindAsync, ToListAsync, *)
(* AnyAsync, LoadAsync, SaveChangesAsync); what it does between two        *)
(* accesses is local and belongs to the step of the access before.  The    *)
(* server runs handlers side by side: PostTransacao calls, as many as      *)
(* Posters has members, the DeletePessoa calls of Deleters, and the        *)
(* handlers with a single store access.                                    *)
(*                                                                         *)
(* resposta is the last exchange of one client with the server: the        *)
(* request it sent and the answer it got.  A handler is called with obs    *)
(* TRUE when its caller is that client and FALSE when it is another one,   *)
(* whose answers are not kept.                                             *)
(*                                                                         *)
(* Spec is the server under a client that waits for each answer before it  *)
(* sends the next request.  SpecFalha adds the stop of the process.        *)
(* SpecConc is the server under requests that do not wait for one another. *)
(* SpecForm is the transaction form over the server, with other clients.   *)
(***************************************************************************)
EXTENDS Integers, Sequences, FiniteSets, Bags, TLC

VARIABLES pessoas, categorias, transacoes,
          proxPessoaId, proxCategoriaId, proxTransacaoId,
          resposta,
          post,
          del,
          fPc, fTipo, fPessoaId, fCategoriaId, fPessoas, fCategorias,
          fCargas

vars == <<pessoas, categorias, transacoes,
          proxPessoaId, proxCategoriaId, proxTransacaoId, resposta,
          post, del,
          fPc, fTipo, fPessoaId, fCategoriaId, fPessoas, fCategorias,
          fCargas>>

(* The three tables of the database.                                       *)
store == <<pessoas, categorias, transacoes>>

(* The keys the database generates next (sqlite_sequence).                 *)
prox == <<proxPessoaId, proxCategoriaId, proxTransacaoId>>

(* The calls in flight: the PostTransacao calls, those of the form from    *)
(* the moment the POST is sent to the moment handleSubmit goes on, and the *)
(* DeletePessoa calls.                                                     *)
emCurso == <<post, del>>

(* The state of the transaction form of the front end (TransacoesManager): *)
(* where the component is, the selected kind, person and category, the     *)
(* lists it loaded and its loadData calls in flight; its createTransacao   *)
(* calls are among the PostTransacao calls.  The selects hold '' or a key  *)
(* as a string and handleSubmit reads the key back with parseInt; here ''  *)
(* is 0 and a key is the key.                                              *)
form == <<fPc, fTipo, fPessoaId, fCategoriaId, fPessoas, fCategorias,
          fCargas>>

----------------------------------------------------------------------------
(* Bounds of the model.  PessoaIds and CategoriaIds are the keys of the     *)
(* rows of Pessoas and Categorias, 1..MaxTransacoes those of Transacoes;   *)
(* a request may also name a key that is not in the table.  Posters and    *)
(* Deleters are the PostTransacao handlers and the DeletePessoa handlers   *)
(* the server can have running, MaxEnvios the createTransacao calls the    *)
(* form can have in flight.                                                *)
PessoaIds == {1, 2}
CategoriaIds == {1, 2}
MaxTransacoes == 2
Posters == {1, 2}
Deleters == {1, 2}
MaxEnvios == 2

(* Limits set by the data annotations of the entities.                     *)
NomeMaxLength == 200
DescricaoCategoriaMaxLength == 100
DescricaoTransacaoMaxLength == 200
IdadeMin == 0
IdadeMax == 150
ValorMin == 1
MaioridadeIdade == 18

----------------------------------------------------------------------------
(* Characters.  A character is a one-character string; a character that   *)
(* is not printable ASCII and has no escape is written as its code point.  *)
VT == "U+000B"
NEL == "U+0085"
NBSP == "U+00A0"
BOM == "U+FEFF"

(* char.IsWhiteSpace: U+0009..U+000D, U+0020, U+0085, U+00A0 and the        *)
(* categories Zs, Zl and Zp.                                               *)
WhiteSpace ==
    {"\t", "\n", VT, "\f", "\r", " ", NEL, NBSP,
     "U+1680", "U+2000", "U+2001", "U+2002", "U+2003", "U+2004", "U+2005",
     "U+2006", "U+2007", "U+2008", "U+2009", "U+200A", "U+2028", "U+2029",
     "U+202F", "U+205F", "U+3000"}

(* string.IsNullOrWhiteSpace, and [Required], which rejects the same       *)
(* strings.                                                                *)
IsNullOrWhiteSpace(s) == \A i \in 1..Len(s) : s[i] \in WhiteSpace

(* The strings the code compares with.                                     *)
Despesa == <<"D", "e", "s", "p", "e", "s", "a">>
Receita == <<"R", "e", "c", "e", "i", "t", "a">>
Ambas == <<"A", "m", "b", "a", "s">>

----------------------------------------------------------------------------
(* Request bodies.  The handlers bind the entity classes themselves, so a  *)
(* body may carry every public property of the entity: the key (Id, 0      *)
(* when the member is absent), the collection Transacoes of a person or a  *)
(* category (a list, empty when absent) and the navigations Pessoa and     *)
(* Categoria of a transaction (<<>> for null, <<e>> for an object).        *)
PessoaBody(id, nome, idade, txs) ==
    [Id |-> id, Nome |-> nome, Idade |-> idade, Transacoes |-> txs]
CategoriaBody(id, descricao, finalidade, txs) ==
    [Id |-> id, Descricao |-> descricao, Finalidade |-> finalidade,
     Transacoes |-> txs]
TransacaoBody(id, descricao, valor, tipo, categoriaId, pessoaId, pessoa, categoria) ==
    [Id |-> id, Descricao |-> descricao, Valor |-> valor, Tipo |-> tipo,
     CategoriaId |-> categoriaId, PessoaId |-> pessoaId,
     Pessoa |-> pessoa, Categoria |-> categoria]

Luz == <<"L", "u", "z">>
Ana == <<"A", "n", "a">>
Branco == <<" ">>
Outra == <<"O", "u", "t", "r", "a">>

Nomes == {Branco, Ana}
Idades == {-1, 17, 18, 151}
DescricoesCategoria == {<<>>, Luz}
Finalidades == {Despesa, Receita, Ambas, Outra, Branco}
DescricoesTransacao == {Branco, Luz}
Valores == {0, 5000}
Tipos == {Despesa, Receita, Ambas, Branco}

(* The bodies the clients of the API send: with the members of the         *)
(* documented contract only and at most one malformed field (a transaction *)
(* body with a malformed field names person 1 and category 1, and asks for *)
(* a Receita when the field is the Descricao or the Valor) ...             *)
PessoaRequestsSimples ==
    {PessoaBody(0, n, i, <<>>) : <<n, i>> \in
        {x \in Nomes \X Idades : x[1] = Ana \/ x[2] = 18}}
CategoriaRequestsSimples ==
    {CategoriaBody(0, d, f, <<>>) : <<d, f>> \in
        {x \in DescricoesCategoria \X Finalidades : x[1] = Luz \/ x[2] = Ambas}}
TransacaoRequestsSimples ==
    {TransacaoBody(0, x[1], x[2], x[3], x[4], x[5], <<>>, <<>>) : x \in
        {y \in DescricoesTransacao \X Valores \X Tipos \X CategoriaIds \X PessoaIds :
            \/ y[1] = Luz /\ y[2] = 5000 /\ y[3] \in {Despesa, Receita}
            \/ /\ y[4] = 1 /\ y[5] = 1
               /\ \/ y[3] = Receita /\ (y[1] = Luz \/ y[2] = 5000)
                  \/ y[1] = Luz /\ y[2] = 5000}}

(* ... and bodies with more members than the contract has: a key, a list   *)
(* of transactions in a person or a category, a person or a category in a  *)
(* transaction.  The nested entities carry no further members and pass the *)
(* data annotations.                                                       *)
ReceitaAninhada ==
    TransacaoBody(0, Luz, 5000, Receita, 1, 1, <<>>, <<>>)
PessoaRequestsAMais ==
    {PessoaBody(1, Ana, 18, <<>>),
     PessoaBody(0, Ana, 17, <<ReceitaAninhada>>)}
CategoriaRequestsAMais ==
    {CategoriaBody(1, Luz, Ambas, <<>>),
     CategoriaBody(0, Luz, Despesa, <<ReceitaAninhada>>)}
TransacaoRequestsAMais ==
    {TransacaoBody(1, Luz, 5000, Despesa, 1, 1, <<>>, <<>>),
     TransacaoBody(0, Luz, 5000, Receita, 1, 1,
                   <<PessoaBody(0, Ana, 17, <<>>)>>, <<>>),
     TransacaoBody(0, Luz, 5000, Receita, 1, 1,
                   <<>>, <<CategoriaBody(0, Luz, Despesa, <<>>)>>)}

PessoaRequests == PessoaRequestsSimples \cup PessoaRequestsAMais
CategoriaRequests == CategoriaRequestsSimples \cup CategoriaRequestsAMais
TransacaoRequests == TransacaoRequestsSimples \cup TransacaoRequestsAMais

----------------------------------------------------------------------------
(* Automatic model validation of [ApiController]: the data annotations of  *)
(* the bound entity and of the entities it carries are checked before the  *)
(* action runs.                                                            *)
RECURSIVE ModelStatePessoa(_), ModelStateCategoria(_), ModelStateTransacao(_)
ModelStatePessoa(p) ==
    /\ ~IsNullOrWhiteSpace(p.Nome)
    /\ Len(p.Nome) <= NomeMaxLength
    /\ p.Idade >= IdadeMin /\ p.Idade <= IdadeMax
    /\ \A i \in 1..Len(p.Transacoes) : ModelStateTransacao(p.Transacoes[i])

ModelStateCategoria(c) ==
    /\ ~IsNullOrWhiteSpace(c.Descricao)
    /\ Len(c.Descricao) <= DescricaoCategoriaMaxLength
    /\ ~IsNullOrWhiteSpace(c.Finalidade)
    /\ \A i \in 1..Len(c.Transacoes) : ModelStateTransacao(c.Transacoes[i])

ModelStateTransacao(t) ==
    /\ ~IsNullOrWhiteSpace(t.Descricao)
    /\ Len(t.Descricao) <= DescricaoTransacaoMaxLength
    /\ t.Valor >= ValorMin
    /\ ~IsNullOrWhiteSpace(t.Tipo)
    /\ \A i \in 1..Len(t.Pessoa) : ModelStatePessoa(t.Pessoa[i])
    /\ \A i \in 1..Len(t.Categoria) : ModelStateCategoria(t.Categoria[i])

MsgValidacao == "One or more validation errors occurred."

----------------------------------------------------------------------------
(* Responses.  status 0: the request was sent and is not answered yet.     *)
(* mensagem is the member message of the JSON body, the title of the       *)
(* ProblemDetails body of the automatic 400 of [ApiController], and ""     *)
(* when the body has neither (as in the 500 of an exception no handler     *)
(* catches).                                                               *)
Resposta(op, req, status, mensagem, id, removidas) ==
    [op |-> op, req |-> req, status |-> status, mensagem |-> mensagem,
     id |-> id, removidas |-> removidas]

Nenhuma == Resposta("Nenhuma", [Id |-> 0], 0, "", 0, 0)

(* DbSet.FindAsync(id): the rows with that key; empty when it returns null *)
Find(tabela, id) == {e \in tabela : e.Id = id}

(* The answer r goes to the caller.                                        *)
Responde(obs, r) == resposta' = IF obs THEN r ELSE resposta

----------------------------------------------------------------------------
(* The database: SaveChanges inserts the entities that Add tracked, in one *)
(* transaction.                                                            *)
Banco ==
    [ok |-> TRUE,
     pessoas |-> pessoas, categorias |-> categorias, transacoes |-> transacoes,
     proxPessoaId |-> proxPessoaId, proxCategoriaId |-> proxCategoriaId,
     proxTransacaoId |-> proxTransacaoId]

(* The key of an inserted row: the Id of the entity when it is set, the    *)
(* next value of the AUTOINCREMENT sequence of the table when it is 0.     *)
Chave(id, proxId) == IF id # 0 THEN id ELSE proxId

(* The next value of the sequence after the insert of that row.            *)
ProxApos(id, proxId) ==
    IF id # 0 /\ id < proxId THEN proxId ELSE Chave(id, proxId) + 1

(* The rows as inserted.                                                   *)
NovaPessoa(p, id) == [Id |-> id, Nome |-> p.Nome, Idade |-> p.Idade]
NovaCategoria(c, id) ==
    [Id |-> id, Descricao |-> c.Descricao, Finalidade |-> c.Finalidade]

NovaTransacao(t, id, pessoaId, categoriaId) ==
    [Id |-> id, Descricao |-> t.Descricao, Valor |-> t.Valor, Tipo |-> t.Tipo,
     CategoriaId |-> categoriaId, PessoaId |-> pessoaId]

(* The insert of the transactions of a list.  pessoaId and categoriaId are *)
(* the key of the entity the transaction is attached to by a navigation    *)
(* (the fix-up of the change tracker sets the foreign key from it), 0 when *)
(* it is attached to none and keeps the foreign key of the body.  ok turns *)
(* FALSE when a key is already in the table.                               *)
RECURSIVE InserirTransacoes(_, _, _, _)
InserirTransacoes(b, lista, pessoaId, categoriaId) ==
    IF lista = <<>> THEN b
    ELSE LET t == Head(lista)
             id == Chave(t.Id, b.proxTransacaoId)
             linha == NovaTransacao(t, id,
                        IF pessoaId # 0 THEN pessoaId ELSE t.PessoaId,
                        IF categoriaId # 0 THEN categoriaId ELSE t.CategoriaId)
         IN InserirTransacoes(
              [b EXCEPT !.ok = b.ok /\ Find(b.transacoes, id) = {},
                        !.transacoes = b.transacoes \cup {linha},
                        !.proxTransacaoId = ProxApos(t.Id, b.proxTransacaoId)],
              Tail(lista), pessoaId, categoriaId)

(* The insert of a person, or of a category, with the transactions of its  *)
(* collection.                                                             *)
InserirPessoa(b, p) ==
    LET id == Chave(p.Id, b.proxPessoaId) IN
    InserirTransacoes(
        [b EXCEPT !.ok = b.ok /\ Find(b.pessoas, id) = {},
                  !.pessoas = b.pessoas \cup {NovaPessoa(p, id)},
                  !.proxPessoaId = ProxApos(p.Id, b.proxPessoaId)],
        p.Transacoes, id, 0)

InserirCategoria(b, c) ==
    LET id == Chave(c.Id, b.proxCategoriaId) IN
    InserirTransacoes(
        [b EXCEPT !.ok = b.ok /\ Find(b.categorias, id) = {},
                  !.categorias = b.categorias \cup {NovaCategoria(c, id)},
                  !.proxCategoriaId = ProxApos(c.Id, b.proxCategoriaId)],
        c.Transacoes, 0, id)

(* Variant: Transacoes has no foreign key to Pessoas.                      *)
ViolaChaveEstrangeiraSoCategoria(t, ps, cs) == Find(cs, t.CategoriaId) = {}

(* HasForeignKey(t => t.PessoaId) and HasForeignKey(t => t.CategoriaId):   *)
(* the insert of a transaction row whose person or category is not in the *)
(* database fails.                                                         *)
ViolaChaveEstrangeira(t, ps, cs) ==
    \/ Find(ps, t.PessoaId) = {}
    \/ Find(cs, t.CategoriaId) = {}

(* The inserts commit: no key is taken twice and every transaction row has *)
(* its person and its category.  Otherwise the database rolls back and     *)
(* SaveChanges throws; no handler catches it and the server answers 500.   *)
Commit(b) ==
    /\ b.ok
    /\ \A t \in b.transacoes :
         ~ViolaChaveEstrangeira(t, b.pessoas, b.categorias)

(* The database after the inserts is within the bounds of the model.       *)
CabeNoModelo(b) ==
    /\ \A p \in b.pessoas : p.Id \in PessoaIds
    /\ \A c \in b.categorias : c.Id \in CategoriaIds
    /\ \A t \in b.transacoes : t.Id \in 1..MaxTransacoes

(* The tables and the sequences take the values of b.                      *)
Grava(b) ==
    /\ pessoas' = b.pessoas
    /\ categorias' = b.categorias
    /\ transacoes' = b.transacoes
    /\ proxPessoaId' = b.proxPessoaId
    /\ proxCategoriaId' = b.proxCategoriaId
    /\ proxTransacaoId' = b.proxTransacaoId

----------------------------------------------------------------------------
(* The handlers in flight.                                                 *)
SemRequisicao == [Id |-> 0]

(* A PostTransacao call, from the request on its way to the server to the  *)
(* answer on its way to the caller: where it is, the entity the handler    *)
(* bound, the caller, and the status and the message of the answer (0 and  *)
(* "" while the server has not answered).  The caller is "cliente", the    *)
(* client whose answers resposta keeps, or the form: "form" while the      *)
(* component that called createTransacao is mounted, "desmontado" after.   *)
(* The request of the client is handled as it is sent and its call ends    *)
(* with the answer.  handleSubmit reads of the answer whether it is an     *)
(* error and its message, and does not read the body it posted again, so   *)
(* an answered call keeps no body.                                         *)
Chamada(req, de) ==
    [pc |-> "enviado", req |-> req, de |-> de, status |-> 0, mensagem |-> ""]
EnvioRespondido(c, r) ==
    [pc |-> "respondido", req |-> SemRequisicao, de |-> c.de,
     status |-> r.status, mensagem |-> r.mensagem]

(* A DeletePessoa call: where it is, the key it was called with, its       *)
(* caller, the part of todasCategorias the foreach has not visited, the    *)
(* categories it passed to Categorias.Remove, and its counter.             *)
Parado ==
    [pc |-> "ocioso", id |-> 0, obs |-> FALSE, resto |-> <<>>,
     marcadas |-> {}, categoriasRemovidas |-> 0]

(* The createTransacao calls of the form                                   *)
fEnvios ==
    [c \in {x \in BagToSet(post) : x.de # "cliente"} |-> CopiesIn(c, post)]

(* A loadData call that has sent its GETs: the rows /pessoas and           *)
(* /categorias answered with (<<>>: not yet).                              *)
NovaCarga == [pessoas |-> <<>>, categorias |-> <<>>]

(* No handler with more than one store access is in flight.                *)
Ocioso == post = EmptyBag /\ \A d \in Deleters : del[d].pc = "ocioso"

(* A new DeletePessoa call takes the free place of lowest number.          *)
Livre(d) ==
    /\ del[d].pc = "ocioso"
    /\ \A e \in Deleters : e < d => del[e].pc # "ocioso"

(* The number of PostTransacao calls that are at one of these places       *)
Em(pcs) ==
    BagCardinality([c \in {x \in BagToSet(post) : x.pc \in pcs} |->
                      CopiesIn(c, post)])

(* The PostTransacao handlers that are running, and those of them that     *)
(* have not reached the end of their SaveChangesAsync: each may take a key *)
(* of Transacoes.                                                          *)
EmAndamento == Em({"categoria", "salvar", "pessoa", "responder"})
Reservadas == Em({"categoria", "salvar"})

TypeOK ==
    /\ pessoas \subseteq [Id : PessoaIds, Nome : Nomes, Idade : Idades]
    /\ categorias \subseteq
         [Id : CategoriaIds, Descricao : DescricoesCategoria,
          Finalidade : Finalidades]
    /\ transacoes \subseteq
         [Id : 1..MaxTransacoes, Descricao : {Luz}, Valor : Valores,
          Tipo : Tipos, CategoriaId : CategoriaIds, PessoaId : PessoaIds]
    /\ \A p, q \in pessoas : p.Id = q.Id => p = q
    /\ \A c, e \in categorias : c.Id = e.Id => c = e
    /\ \A t, u \in transacoes : t.Id = u.Id => t = u
    /\ proxPessoaId \in 1..(Cardinality(PessoaIds) + 1)
    /\ proxCategoriaId \in 1..(Cardinality(CategoriaIds) + 1)
    /\ proxTransacaoId \in 1..(MaxTransacoes + 1)
    /\ \A p \in pessoas : p.Id < proxPessoaId
    /\ \A c \in categorias : c.Id < proxCategoriaId
    /\ \A t \in transacoes : t.Id < proxTransacaoId
    /\ IsABag(post)
    /\ EmAndamento <= Cardinality(Posters)
    /\ \A c \in BagToSet(post) :
         /\ c.pc \in {"enviado", "categoria", "salvar", "pessoa", "responder",
                      "respondido"}
         /\ c.de \in {"cliente", "form", "desmontado"}
         /\ c.status \in {0, 201, 400, 500}
         /\ c.pc = "respondido" <=> c.status # 0
         /\ c.pc = "respondido" <=> c.req = SemRequisicao
         /\ c.de = "cliente" => c.pc \notin {"enviado", "respondido"}
         /\ c.de = "form" => fPc # "desmontado"
    /\ \A d \in Deleters :
         /\ del[d].pc \in {"ocioso", "remover", "lista", "laco", "commit"}
         /\ del[d].pc = "ocioso" => del[d] = Parado
         /\ del[d].pc # "ocioso" => del[d].id \in PessoaIds
         /\ del[d].categoriasRemovidas = Cardinality(del[d].marcadas)
         /\ del[d].pc = "laco" => del[d].resto # <<>>
    /\ fPc \in {"desmontado", "carregando", "pronto"}
    /\ fTipo \in {Despesa, Receita}
    /\ fPessoaId \in {0} \cup PessoaIds
    /\ fCategoriaId \in {0} \cup CategoriaIds
    /\ BagCardinality(fEnvios) <= MaxEnvios
    /\ IsABag(fCargas)
    /\ BagCardinality(fCargas) <= 2 + MaxEnvios
    /\ fPc = "desmontado" => fCargas = EmptyBag
    /\ fPc = "carregando" =>
         fCargas # EmptyBag \/ \E e \in BagToSet(fEnvios) : e.de = "form"

----------------------------------------------------------------------------
(* PessoasController.PostPessoa                                            *)
PostPessoa(p, obs) ==
    /\ UNCHANGED <<emCurso, form>>
    /\ IF ~ModelStatePessoa(p)
       THEN /\ Responde(obs, Resposta("PostPessoa", p, 400, MsgValidacao, 0, 0))
            /\ UNCHANGED <<store, prox>>
       ELSE IF IsNullOrWhiteSpace(p.Nome)
       THEN /\ Responde(obs, Resposta("PostPessoa", p, 400, "O nome é obrigatório", 0, 0))
            /\ UNCHANGED <<store, prox>>
       ELSE IF p.Idade < 0
       THEN /\ Responde(obs, Resposta("PostPessoa", p, 400,
                                    "A idade deve ser um número positivo", 0, 0))
            /\ UNCHANGED <<store, prox>>
       ELSE LET b == InserirPessoa(Banco, p) IN
            IF ~Commit(b)
            THEN /\ Responde(obs, Resposta("PostPessoa", p, 500, "", 0, 0))
                 /\ UNCHANGED <<store, prox>>
            ELSE /\ CabeNoModelo(b)
                 /\ Grava(b)
                 /\ Responde(obs, Resposta("PostPessoa", p, 201, "",
                                         Chave(p.Id, proxPessoaId), 0))

(* CategoriasController.PostCategoria                                      *)
finalidadesValidas == {Despesa, Receita, Ambas}

PostCategoria(c, obs) ==
    /\ UNCHANGED <<emCurso, form>>
    /\ IF ~ModelStateCategoria(c)
       THEN /\ Responde(obs, Resposta("PostCategoria", c, 400, MsgValidacao, 0, 0))
            /\ UNCHANGED <<store, prox>>
       ELSE IF IsNullOrWhiteSpace(c.Descricao)
       THEN /\ Responde(obs, Resposta("PostCategoria", c, 400,
                                    "A descrição é obrigatória", 0, 0))
            /\ UNCHANGED <<store, prox>>
       ELSE IF c.Finalidade \notin finalidadesValidas
       THEN /\ Responde(obs, Resposta("PostCategoria", c, 400,
                 "Finalidade inválida. Valores aceitos: 'Despesa', 'Receita' ou 'Ambas'",
                 0, 0))
            /\ UNCHANGED <<store, prox>>
       ELSE LET b == InserirCategoria(Banco, c) IN
            IF ~Commit(b)
            THEN /\ Responde(obs, Resposta("PostCategoria", c, 500, "", 0, 0))
                 /\ UNCHANGED <<store, prox>>
            ELSE /\ CabeNoModelo(b)
                 /\ Grava(b)
                 /\ Responde(obs, Resposta("PostCategoria", c, 201, "",
                                         Chave(c.Id, proxCategoriaId), 0))

----------------------------------------------------------------------------
(* TransacoesController.PostTransacao                                      *)
tiposValidos == {Despesa, Receita}

MsgDescricao == "A descrição é obrigatória"
MsgValor == "O valor deve ser um número positivo"
MsgTipo == "Tipo inválido. Valores aceitos: 'Despesa' ou 'Receita'"
MsgPessoa == "Pessoa não encontrada"
MsgMenor == "Menores de idade (menor de 18 anos) só podem registrar despesas"
MsgSoReceitas ==
    "Esta categoria é exclusiva para receitas e não pode ser usada em despesas"
MsgSoDespesas ==
    "Esta categoria é exclusiva para despesas e não pode ser usada em receitas"
(* Variant: the missing category is reported with the message of a         *)
(* category that is for expenses only.                                     *)
MsgCategoriaComoSoDespesas == MsgSoDespesas

MsgCategoria == "Categoria não encontrada"

(* Variant: the age test written with <= instead of <.                     *)
MenorComReceitaInclusivo(pessoa, t) ==
    pessoa.Idade <= MaioridadeIdade /\ t.Tipo = Receita

(* pessoa.Idade < 18 && transacao.Tipo == "Receita"                        *)
MenorComReceita(pessoa, t) ==
    pessoa.Idade < MaioridadeIdade /\ t.Tipo = Receita

(* Variant: the first category/type test is missing.                       *)
DespesaEmCategoriaDeReceitaAusente(t, categoria) == FALSE

(* the two category/type tests, in the order of the code                   *)
DespesaEmCategoriaDeReceita(t, categoria) ==
    t.Tipo = Despesa /\ categoria.Finalidade = Receita

ReceitaEmCategoriaDeDespesa(t, categoria) ==
    t.Tipo = Receita /\ categoria.Finalidade = Despesa

(* Variant: the person is looked up before the Tipo is validated.          *)
AdmissaoAtePessoaAntesDoTipo(t, ps) ==
    IF ~ModelStateTransacao(t) THEN MsgValidacao
    ELSE IF IsNullOrWhiteSpace(t.Descricao) THEN MsgDescricao
    ELSE IF t.Valor <= 0 THEN MsgValor
    ELSE IF Find(ps, t.PessoaId) = {} THEN MsgPessoa
    ELSE IF t.Tipo \notin tiposValidos THEN MsgTipo
    ELSE LET pessoa == CHOOSE p \in Find(ps, t.PessoaId) : TRUE IN
         IF MenorComReceita(pessoa, t) THEN MsgMenor
    ELSE ""

(* Variant: the rule for minors is not tested.                             *)
AdmissaoAtePessoaSemMenor(t, ps) ==
    IF ~ModelStateTransacao(t) THEN MsgValidacao
    ELSE IF IsNullOrWhiteSpace(t.Descricao) THEN MsgDescricao
    ELSE IF t.Valor <= 0 THEN MsgValor
    ELSE IF t.Tipo \notin tiposValidos THEN MsgTipo
    ELSE IF Find(ps, t.PessoaId) = {} THEN MsgPessoa
    ELSE ""

(* PostTransacao from its start to the test of the person's age: the       *)
(* message of the BadRequest it returns, "" when it goes on.  The first    *)
(* line is the automatic 400 of [ApiController] for a body that fails the  *)
(* annotations; the action body follows.                                   *)
AdmissaoAtePessoa(t, ps) ==
    IF ~ModelStateTransacao(t) THEN MsgValidacao
    ELSE IF IsNullOrWhiteSpace(t.Descricao) THEN MsgDescricao
    ELSE IF t.Valor <= 0 THEN MsgValor
    ELSE IF t.Tipo \notin tiposValidos THEN MsgTipo
    ELSE IF Find(ps, t.PessoaId) = {} THEN MsgPessoa
    ELSE LET pessoa == CHOOSE p \in Find(ps, t.PessoaId) : TRUE IN
         IF MenorComReceita(pessoa, t) THEN MsgMenor
    ELSE ""

(* PostTransacao from the read of the category to the last test            *)
AdmissaoCategoria(t, cs) ==
    IF Find(cs, t.CategoriaId) = {} THEN MsgCategoria
    ELSE LET categoria == CHOOSE c \in Find(cs, t.CategoriaId) : TRUE IN
         IF DespesaEmCategoriaDeReceita(t, categoria) THEN MsgSoReceitas
    ELSE IF ReceitaEmCategoriaDeDespesa(t, categoria) THEN MsgSoDespesas
    ELSE ""

(* _context.Transacoes.Add(transacao) and SaveChangesAsync: the database   *)
(* after the insert of the transaction and of the person and the category  *)
(* the body carries.  Add cannot track a carried entity under the key of   *)
(* the person or the category that FindAsync left in the context.          *)
InserirTransacao(b, t) ==
    LET comPessoa ==
            IF t.Pessoa = <<>> THEN b ELSE InserirPessoa(b, t.Pessoa[1])
        comCategoria ==
            IF t.Categoria = <<>> THEN comPessoa
            ELSE InserirCategoria(comPessoa, t.Categoria[1])
        rastreadas ==
            /\ t.Pessoa # <<>> => t.Pessoa[1].Id # t.PessoaId
            /\ t.Categoria # <<>> => t.Categoria[1].Id # t.CategoriaId
    IN InserirTransacoes(
         [comCategoria EXCEPT !.ok = comCategoria.ok /\ rastreadas],
         <<t>>,
         IF t.Pessoa = <<>> THEN 0 ELSE Chave(t.Pessoa[1].Id, b.proxPessoaId),
         IF t.Categoria = <<>> THEN 0
         ELSE Chave(t.Categoria[1].Id, b.proxCategoriaId))

(* The call c goes on as n.                                                *)
Passa(c, n) == post' = (post (-) SetToBag({c})) (+) SetToBag({n})

(* The handler of the call c answers r: to the client, whose call is over, *)
(* or to the browser.                                                      *)
RespondeT(c, r) ==
    IF c.de = "cliente"
    THEN resposta' = r /\ post' = post (-) SetToBag({c})
    ELSE UNCHANGED resposta /\ Passa(c, EnvioRespondido(c, r))

(* The model validation, the tests of the fields, FindAsync of the person  *)
(* and the rule for minors, for the request of the call c.  Nothing makes  *)
(* a request wait for another: the handler starts whatever the other calls *)
(* in flight are doing.                                                    *)
PostTransacaoFindPessoa(c) ==
    /\ c.pc = "enviado"
    /\ UNCHANGED <<store, prox, del, form>>
    /\ LET t == c.req
           msg == AdmissaoAtePessoa(t, pessoas)
       IN
       IF msg # ""
       THEN RespondeT(c, Resposta("PostTransacao", t, 400, msg, 0, 0))
       ELSE /\ EmAndamento < Cardinality(Posters)
            /\ Chave(t.Id, proxTransacaoId) + Reservadas <= MaxTransacoes
            /\ t.Pessoa # <<>> => Chave(t.Pessoa[1].Id, proxPessoaId) \in PessoaIds
            /\ t.Categoria # <<>> =>
                 Chave(t.Categoria[1].Id, proxCategoriaId) \in CategoriaIds
            /\ Passa(c, [c EXCEPT !.pc = "categoria"])
            /\ Responde(c.de = "cliente",
                        Resposta("PostTransacao", t, 0, "", 0, 0))

(* Variant: Add and SaveChanges run before the category/type tests, so a  *)
(* request those tests reject has already been stored.                     *)
PostTransacaoFindCategoriaSalvaAntes(c) ==
    /\ BagIn(c, post)
    /\ c.pc = "categoria"
    /\ UNCHANGED <<form, del>>
    /\ LET msg == AdmissaoCategoria(c.req, categorias) IN
       IF msg \in {MsgSoReceitas, MsgSoDespesas}
       THEN /\ Grava(InserirTransacao(Banco, c.req))
            /\ RespondeT(c, Resposta("PostTransacao", c.req, 400, msg, 0, 0))
       ELSE IF msg # ""
       THEN /\ RespondeT(c, Resposta("PostTransacao", c.req, 400, msg, 0, 0))
            /\ UNCHANGED <<store, prox>>
       ELSE /\ Passa(c, [c EXCEPT !.pc = "salvar"])
            /\ UNCHANGED <<store, prox, resposta>>

(* FindAsync of the category and the two category/type tests               *)
PostTransacaoFindCategoria(c) ==
    /\ BagIn(c, post)
    /\ c.pc = "categoria"
    /\ UNCHANGED <<store, prox, form, del>>
    /\ LET msg == AdmissaoCategoria(c.req, categorias) IN
       IF msg # ""
       THEN RespondeT(c, Resposta("PostTransacao", c.req, 400, msg, 0, 0))
       ELSE /\ Passa(c, [c EXCEPT !.pc = "salvar"])
            /\ UNCHANGED resposta

(* Transacoes.Add and SaveChangesAsync, which sets the Id of the entity to  *)
(* the key of the row.                                                     *)
PostTransacaoSaveChanges(c) ==
    /\ BagIn(c, post)
    /\ c.pc = "salvar"
    /\ UNCHANGED <<form, del>>
    /\ LET b == InserirTransacao(Banco, c.req) IN
       IF ~Commit(b)
       THEN /\ RespondeT(c, Resposta("PostTransacao", c.req, 500, "", 0, 0))
            /\ UNCHANGED <<store, prox>>
       ELSE /\ Grava(b)
            /\ Passa(c, [c EXCEPT !.pc = "pessoa",
                                  !.req.Id = Chave(c.req.Id, proxTransacaoId)])
            /\ UNCHANGED resposta

(* Entry(transacao).Reference(t => t.Pessoa).LoadAsync(): the navigation   *)
(* was set when the entity was added; the response does not depend on the  *)
(* read.                                                                   *)
PostTransacaoLoadPessoa(c) ==
    /\ BagIn(c, post)
    /\ c.pc = "pessoa"
    /\ Passa(c, [c EXCEPT !.pc = "responder"])
    /\ UNCHANGED <<store, prox, form, del, resposta>>

(* Entry(transacao).Reference(t => t.Categoria).LoadAsync() and            *)
(* CreatedAtAction                                                         *)
PostTransacaoLoadCategoria(c) ==
    /\ BagIn(c, post)
    /\ c.pc = "responder"
    /\ RespondeT(c, Resposta("PostTransacao", c.req, 201, "", c.req.Id, 0))
    /\ UNCHANGED <<store, prox, form, del>>

----------------------------------------------------------------------------
(* PessoasController.DeletePessoa                                          *)

(* Variant: the cascade matches the transaction's own key.                 *)
CascadePorChaveDaTransacao(txs, id) == {t \in txs : t.Id # id}

(* Variant: no cascade, the person's transactions stay.                    *)
CascadeNenhuma(txs, id) == txs

(* Variant: the delete of a person empties the Transacoes table.           *)
CascadeTudo(txs, id) == {}

(* OnDelete(DeleteBehavior.Cascade) of Pessoa -> Transacoes: the rows that *)
(* remain in Transacoes when the person with key id is deleted.            *)
Cascade(txs, id) == {t \in txs : t.PessoaId # id}

(* Variant: the list misses the row with the lowest key.                   *)
RECURSIVE ToListSemPrimeiro(_)
ToListSemPrimeiro(tabela) ==
    IF tabela = {} THEN <<>>
    ELSE LET primeiro == CHOOSE e \in tabela : \A o \in tabela : e.Id <= o.Id
             resto == tabela \ {primeiro}
         IN IF resto = {} THEN <<>>
            ELSE LET segundo ==
                       CHOOSE e \in resto : \A o \in resto : e.Id <= o.Id
                 IN <<segundo>> \o ToListSemPrimeiro(resto)

(* ToListAsync(): the rows of a table in key order                         *)
RECURSIVE ToList(_)
ToList(tabela) ==
    IF tabela = {} THEN <<>>
    ELSE LET primeiro == CHOOSE e \in tabela : \A o \in tabela : e.Id <= o.Id
         IN <<primeiro>> \o ToList(tabela \ {primeiro})

(* Variant: AnyAsync() without the predicate.                              *)
temTransacoesSemFiltro(txs, categoria) == txs # {}

(* Transacoes.AnyAsync(t => t.CategoriaId == categoria.Id)                 *)
temTransacoes(txs, categoria) == \E t \in txs : t.CategoriaId = categoria.Id

(* Where the call goes after a pass of the foreach.                        *)
AposVisita(resto) == IF resto = <<>> THEN "commit" ELSE "laco"

(* Variant: categoriasRemovidas++ sits outside the if, it counts every     *)
(* category visited.                                                       *)
VisitaContaTodas(l, txs) ==
    LET categoria == Head(l.resto) IN
    IF ~temTransacoes(txs, categoria)
    THEN [l EXCEPT !.pc = AposVisita(Tail(l.resto)),
                   !.resto = Tail(l.resto),
                   !.marcadas = l.marcadas \cup {categoria},
                   !.categoriasRemovidas = l.categoriasRemovidas + 1]
    ELSE [l EXCEPT !.pc = AposVisita(Tail(l.resto)),
                   !.resto = Tail(l.resto),
                   !.categoriasRemovidas = l.categoriasRemovidas + 1]

(* Variant: the foreach breaks after its first Categorias.Remove.          *)
VisitaParaNaPrimeira(l, txs) ==
    LET categoria == Head(l.resto) IN
    IF ~temTransacoes(txs, categoria)
    THEN [l EXCEPT !.pc = "commit",
                   !.resto = <<>>,
                   !.marcadas = l.marcadas \cup {categoria},
                   !.categoriasRemovidas = l.categoriasRemovidas + 1]
    ELSE [l EXCEPT !.pc = AposVisita(Tail(l.resto)),
                   !.resto = Tail(l.resto)]

(* One pass of the foreach over todasCategorias: AnyAsync for the category *)
(* at the head of what is left, and for a category without transactions    *)
(* Categorias.Remove and categoriasRemovidas++.                            *)
Visita(l, txs) ==
    LET categoria == Head(l.resto) IN
    IF ~temTransacoes(txs, categoria)
    THEN [l EXCEPT !.pc = AposVisita(Tail(l.resto)),
                   !.resto = Tail(l.resto),
                   !.marcadas = l.marcadas \cup {categoria},
                   !.categoriasRemovidas = l.categoriasRemovidas + 1]
    ELSE [l EXCEPT !.pc = AposVisita(Tail(l.resto)),
                   !.resto = Tail(l.resto)]

(* The keys of the rows of a set.                                          *)
Chaves(linhas) == {e.Id : e \in linhas}

(* Variant: the relation Categoria -> Transacoes does not restrict the     *)
(* delete.                                                                 *)
ViolaRestrictNunca(remover, txs) == FALSE

(* OnDelete(DeleteBehavior.Restrict): the delete of a category row that a *)
(* transaction references fails.                                           *)
ViolaRestrict(remover, txs) ==
    \E c \in remover : \E t \in txs : t.CategoriaId = c.Id

(* SaveChanges sends one DELETE by key for each removed entity and expects *)
(* each to delete one row; it throws DbUpdateConcurrencyException when the *)
(* row is not in the table any more.                                       *)
ViolaConcorrencia(remover, tabela) ==
    \E e \in remover : Find(tabela, e.Id) = {}

(* Variant: the NotFound return comes after the removal of the categories  *)
(* without transactions, which runs for a key that is not in the table too. *)
DeletePessoaFindVarreSempre(d, id, obs) ==
    /\ Livre(d)
    /\ UNCHANGED <<post, form, prox>>
    /\ IF Find(pessoas, id) = {}
       THEN /\ Responde(obs, Resposta("DeletePessoa", [Id |-> id], 404, MsgPessoa, 0, 0))
            /\ categorias' = {c \in categorias : temTransacoes(transacoes, c)}
            /\ UNCHANGED <<pessoas, transacoes, del>>
       ELSE /\ Responde(obs, Resposta("DeletePessoa", [Id |-> id], 0, "", 0, 0))
            /\ del' = [del EXCEPT ![d] = [Parado EXCEPT !.pc = "remover", !.id = id, !.obs = obs]]
            /\ UNCHANGED store

(* FindAsync and the NotFound return                                       *)
DeletePessoaFind(d, id, obs) ==
    /\ Livre(d)
    /\ UNCHANGED <<post, form, store, prox>>
    /\ IF Find(pessoas, id) = {}
       THEN /\ Responde(obs, Resposta("DeletePessoa", [Id |-> id], 404, MsgPessoa, 0, 0))
            /\ UNCHANGED del
       ELSE /\ Responde(obs, Resposta("DeletePessoa", [Id |-> id], 0, "", 0, 0))
            /\ del' = [del EXCEPT ![d] = [Parado EXCEPT !.pc = "remover", !.id = id, !.obs = obs]]

(* Pessoas.Remove and the first SaveChangesAsync                           *)
DeletePessoaRemove(d) ==
    /\ del[d].pc = "remover"
    /\ UNCHANGED <<post, form, prox, categorias>>
    /\ IF ViolaConcorrencia({[Id |-> del[d].id]}, pessoas)
       THEN /\ Responde(del[d].obs, Resposta("DeletePessoa", [Id |-> del[d].id], 500, "", 0, 0))
            /\ del' = [del EXCEPT ![d] = Parado]
            /\ UNCHANGED <<pessoas, transacoes>>
       ELSE /\ pessoas' = pessoas \ Find(pessoas, del[d].id)
            /\ transacoes' = Cascade(transacoes, del[d].id)
            /\ del' = [del EXCEPT ![d].pc = "lista"]
            /\ UNCHANGED resposta

(* Categorias.ToListAsync                                                  *)
DeletePessoaToList(d) ==
    /\ del[d].pc = "lista"
    /\ UNCHANGED <<post, form, store, prox, resposta>>
    /\ del' = [del EXCEPT ![d].resto = ToList(categorias),
                          ![d].pc = AposVisita(ToList(categorias))]

(* A pass of the foreach, with its AnyAsync                                *)
DeletePessoaAnyAsync(d) ==
    /\ del[d].pc = "laco"
    /\ UNCHANGED <<post, form, store, prox, resposta>>
    /\ del' = [del EXCEPT ![d] = Visita(del[d], transacoes)]

(* The second SaveChangesAsync and the Ok response                         *)
DeletePessoaSaveChanges(d) ==
    /\ del[d].pc = "commit"
    /\ UNCHANGED <<post, form, prox, pessoas, transacoes>>
    /\ del' = [del EXCEPT ![d] = Parado]
    /\ IF \/ ViolaConcorrencia(del[d].marcadas, categorias)
          \/ ViolaRestrict(del[d].marcadas, transacoes)
       THEN /\ Responde(del[d].obs, Resposta("DeletePessoa", [Id |-> del[d].id], 500, "", 0, 0))
            /\ UNCHANGED categorias
       ELSE /\ categorias' =
                 {c \in categorias : c.Id \notin Chaves(del[d].marcadas)}
            /\ Responde(del[d].obs, Resposta("DeletePessoa", [Id |-> del[d].id], 200, "",
                                    del[d].id, del[d].categoriasRemovidas))

----------------------------------------------------------------------------
(* RelatoriosController.  Amounts are whole numbers of cents.              *)

(* Sum(t => t.Valor) over a collection of transaction rows                 *)
RECURSIVE Sum(_)
Sum(txs) ==
    IF txs = {} THEN 0
    ELSE LET t == CHOOSE x \in txs : TRUE
         IN t.Valor + Sum(txs \ {t})

(* Variant: Sum() without the Where(t => t.Tipo == ...) filter.            *)
TotalSemFiltro(txs, tipo) == Sum(txs)

(* Where(t => t.Tipo == tipo).Sum(t => t.Valor)                            *)
Total(txs, tipo) == Sum({t \in txs : t.Tipo = tipo})

(* Variant: the operands of the subtraction are swapped.                   *)
SaldoInvertido(totalReceitas, totalDespesas) == totalDespesas - totalReceitas

(* saldo = totalReceitas - totalDespesas; saldoGeral likewise              *)
Saldo(totalReceitas, totalDespesas) == totalReceitas - totalDespesas

(* Include(p => p.Transacoes): the navigation collection of a person       *)
TransacoesDaPessoa(pessoa, txs) == {t \in txs : t.PessoaId = pessoa.Id}

(* Variant: the navigation of a category joins on the person's key.        *)
TransacoesDaCategoriaPorPessoa(categoria, txs) ==
    {t \in txs : t.PessoaId = categoria.Id}

(* Include(c => c.Transacoes): the navigation collection of a category     *)
TransacoesDaCategoria(categoria, txs) ==
    {t \in txs : t.CategoriaId = categoria.Id}

(* Variant: a person without transactions is skipped by the foreach.       *)
RECURSIVE TotaisPorPessoaSoComTransacoes(_, _)
TotaisPorPessoaSoComTransacoes(lista, txs) ==
    IF lista = <<>>
    THEN [totais |-> <<>>, totalGeralReceitas |-> 0, totalGeralDespesas |-> 0]
    ELSE LET pessoa == Head(lista)
             resto == TotaisPorPessoaSoComTransacoes(Tail(lista), txs)
             totalReceitas == Total(TransacoesDaPessoa(pessoa, txs), Receita)
             totalDespesas == Total(TransacoesDaPessoa(pessoa, txs), Despesa)
         IN IF TransacoesDaPessoa(pessoa, txs) = {} THEN resto
            ELSE [totais |->
                    <<[pessoaId |-> pessoa.Id, nome |-> pessoa.Nome,
                       idade |-> pessoa.Idade,
                       totalReceitas |-> totalReceitas,
                       totalDespesas |-> totalDespesas,
                       saldo |-> Saldo(totalReceitas, totalDespesas)]>>
                    \o resto.totais,
                  totalGeralReceitas |-> totalReceitas + resto.totalGeralReceitas,
                  totalGeralDespesas |-> totalDespesas + resto.totalGeralDespesas]

(* The foreach of GetTotaisPorPessoa: one entry per person of the list, in *)
(* list order, and the two running grand totals.                           *)
RECURSIVE TotaisPorPessoa(_, _)
TotaisPorPessoa(lista, txs) ==
    IF lista = <<>>
    THEN [totais |-> <<>>, totalGeralReceitas |-> 0, totalGeralDespesas |-> 0]
    ELSE LET pessoa == Head(lista)
             resto == TotaisPorPessoa(Tail(lista), txs)
             totalReceitas == Total(TransacoesDaPessoa(pessoa, txs), Receita)
             totalDespesas == Total(TransacoesDaPessoa(pessoa, txs), Despesa)
         IN [totais |->
               <<[pessoaId |-> pessoa.Id, nome |-> pessoa.Nome,
                  idade |-> pessoa.Idade,
                  totalReceitas |-> totalReceitas,
                  totalDespesas |-> totalDespesas,
                  saldo |-> Saldo(totalReceitas, totalDespesas)]>>
               \o resto.totais,
             totalGeralReceitas |-> totalReceitas + resto.totalGeralReceitas,
             totalGeralDespesas |-> totalDespesas + resto.totalGeralDespesas]

(* The foreach of GetTotaisPorCategoria                                    *)
RECURSIVE TotaisPorCategoria(_, _)
TotaisPorCategoria(lista, txs) ==
    IF lista = <<>>
    THEN [totais |-> <<>>, totalGeralReceitas |-> 0, totalGeralDespesas |-> 0]
    ELSE LET categoria == Head(lista)
             resto == TotaisPorCategoria(Tail(lista), txs)
             totalReceitas ==
                 Total(TransacoesDaCategoria(categoria, txs), Receita)
             totalDespesas ==
                 Total(TransacoesDaCategoria(categoria, txs), Despesa)
         IN [totais |->
               <<[categoriaId |-> categoria.Id,
                  descricao |-> categoria.Descricao,
                  finalidade |-> categoria.Finalidade,
                  totalReceitas |-> totalReceitas,
                  totalDespesas |-> totalDespesas,
                  saldo |-> Saldo(totalReceitas, totalDespesas)]>>
               \o resto.totais,
             totalGeralReceitas |-> totalReceitas + resto.totalGeralReceitas,
             totalGeralDespesas |-> totalDespesas + resto.totalGeralDespesas]

(* The body GetTotaisPorPessoa returns for a store                         *)
RelatorioPorPessoa(ps, txs) ==
    LET r == TotaisPorPessoa(ToList(ps), txs) IN
    [pessoas |-> r.totais,
     totalGeral |->
       [totalReceitas |-> r.totalGeralReceitas,
        totalDespesas |-> r.totalGeralDespesas,
        saldoLiquido |-> Saldo(r.totalGeralReceitas, r.totalGeralDespesas)]]

(* The body GetTotaisPorCategoria returns for a store                      *)
RelatorioPorCategoria(cs, txs) ==
    LET r == TotaisPorCategoria(ToList(cs), txs) IN
    [categorias |-> r.totais,
     totalGeral |->
       [totalReceitas |-> r.totalGeralReceitas,
        totalDespesas |-> r.totalGeralDespesas,
        saldoLiquido |-> Saldo(r.totalGeralReceitas, r.totalGeralDespesas)]]

(* A 200 response that carries a report body                               *)
RespostaRelatorio(op, corpo) ==
    [op |-> op, req |-> SemRequisicao, status |-> 200, mensagem |-> "",
     id |-> 0, removidas |-> 0, corpo |-> corpo]

(* Variant: the report by person also removes the categories without      *)
(* transactions.                                                           *)
GetTotaisPorPessoaComSweep ==
    /\ UNCHANGED <<emCurso, form, prox>>
    /\ resposta' = RespostaRelatorio("GetTotaisPorPessoa",
                                     RelatorioPorPessoa(pessoas, transacoes))
    /\ categorias' = {c \in categorias : temTransacoes(transacoes, c)}
    /\ UNCHANGED <<pessoas, transacoes>>

GetTotaisPorPessoa ==
    /\ UNCHANGED <<emCurso, form, prox, store>>
    /\ resposta' = RespostaRelatorio("GetTotaisPorPessoa",
                                     RelatorioPorPessoa(pessoas, transacoes))

(* Variant: the report by category also removes the categories without    *)
(* transactions.                                                           *)
GetTotaisPorCategoriaComSweep ==
    /\ UNCHANGED <<emCurso, form, prox>>
    /\ resposta' = RespostaRelatorio("GetTotaisPorCategoria",
                                     RelatorioPorCategoria(categorias, transacoes))
    /\ categorias' = {c \in categorias : temTransacoes(transacoes, c)}
    /\ UNCHANGED <<pessoas, transacoes>>

GetTotaisPorCategoria ==
    /\ UNCHANGED <<emCurso, form, prox, store>>
    /\ resposta' = RespostaRelatorio("GetTotaisPorCategoria",
                                     RelatorioPorCategoria(categorias, transacoes))

----------------------------------------------------------------------------
Init ==
    /\ pessoas = {}
    /\ categorias = {}
    /\ transacoes = {}
    /\ proxPessoaId = 1
    /\ proxCategoriaId = 1
    /\ proxTransacaoId = 1
    /\ resposta = Nenhuma
    /\ post = EmptyBag
    /\ del = [d \in Deleters |-> Parado]
    /\ fPc = "desmontado"
    /\ fTipo = Despesa
    /\ fPessoaId = 0
    /\ fCategoriaId = 0
    /\ fPessoas = {}
    /\ fCategorias = {}
    /\ fCargas = EmptyBag

(* The server under a client that sends a request when the answer to the   *)
(* one before has arrived.                                                 *)
Next ==
    \/ \E p \in PessoaRequests : Ocioso /\ PostPessoa(p, TRUE)
    \/ \E c \in CategoriaRequests : Ocioso /\ PostCategoria(c, TRUE)
    \/ \E t \in TransacaoRequests :
         Ocioso /\ PostTransacaoFindPessoa(Chamada(t, "cliente"))
    \/ \E c \in BagToSet(post) : PostTransacaoFindCategoria(c)
    \/ \E c \in BagToSet(post) : PostTransacaoSaveChanges(c)
    \/ \E c \in BagToSet(post) : PostTransacaoLoadPessoa(c)
    \/ \E c \in BagToSet(post) : PostTransacaoLoadCategoria(c)
    \/ \E d \in Deleters, id \in PessoaIds : Ocioso /\ DeletePessoaFind(d, id, TRUE)
    \/ \E d \in Deleters : DeletePessoaRemove(d)
    \/ \E d \in Deleters : DeletePessoaToList(d)
    \/ \E d \in Deleters : DeletePessoaAnyAsync(d)
    \/ \E d \in Deleters : DeletePessoaSaveChanges(d)
    \/ Ocioso /\ GetTotaisPorPessoa
    \/ Ocioso /\ GetTotaisPorCategoria

Spec == Init /\ [][Next]_vars

----------------------------------------------------------------------------
(* No handler runs inside a database transaction that spans its            *)
(* SaveChangesAsync calls.  The process can stop between any two store     *)
(* accesses of a handler: what was committed stays in the database file,   *)
(* the rest of the handler never runs and no response is sent.             *)
Falha ==
    /\ ~Ocioso
    /\ post' = EmptyBag
    /\ del' = [d \in Deleters |-> Parado]
    /\ UNCHANGED <<store, prox, resposta, form>>

NextFalha ==
    \/ Next
    \/ Falha

SpecFalha == Init /\ [][NextFalha]_vars

----------------------------------------------------------------------------
(* SpecConc: the server under clients that do not wait for one another.    *)
(* They create adults, categories of purpose Ambas and expenses.           *)
PessoaRequestsConc == {PessoaBody(0, Ana, 18, <<>>)}
CategoriaRequestsConc == {CategoriaBody(0, Luz, Ambas, <<>>)}
TransacaoRequestsConc ==
    {TransacaoBody(0, Luz, 5000, Despesa, c, p, <<>>, <<>>) :
        c \in CategoriaIds, p \in PessoaIds}

NextConc ==
    \/ \E p \in PessoaRequestsConc : PostPessoa(p, TRUE)
    \/ \E c \in CategoriaRequestsConc : PostCategoria(c, TRUE)
    \/ \E t \in TransacaoRequestsConc :
         PostTransacaoFindPessoa(Chamada(t, "cliente"))
    \/ \E c \in BagToSet(post) : PostTransacaoFindCategoria(c)
    \/ \E c \in BagToSet(post) : PostTransacaoSaveChanges(c)
    \/ \E c \in BagToSet(post) : PostTransacaoLoadPessoa(c)
    \/ \E c \in BagToSet(post) : PostTransacaoLoadCategoria(c)
    \/ \E d \in Deleters, id \in PessoaIds : DeletePessoaFind(d, id, TRUE)
    \/ \E d \in Deleters : DeletePessoaRemove(d)
    \/ \E d \in Deleters : DeletePessoaToList(d)
    \/ \E d \in Deleters : DeletePessoaAnyAsync(d)
    \/ \E d \in Deleters : DeletePessoaSaveChanges(d)

SpecConc == Init /\ [][NextConc]_vars

----------------------------------------------------------------------------
(* SpecForm: the transaction form of the front end (TransacoesManager)     *)
(* over the server.  The events of the form, the answers of the API to     *)
(* its calls and the steps of the handlers are steps; other clients of the *)
(* API create people and categories and delete people at any moment.  The  *)
(* rows the form loads are the rows the API returns (the JSON has the same *)
(* fields in camelCase).  The description and the amount are given with    *)
(* the submit event, the amount in cents; the list of transactions the     *)
(* component shows is not kept.                                            *)

(* Variant: only the categories whose purpose equals the kind.             *)
getCategoriasCompativeisSoIguais(cats, tipo) ==
    {cat \in cats : cat.Finalidade = tipo}

(* getCategoriasCompativeis: categorias.filter(...) for the selected kind  *)
getCategoriasCompativeis(cats, tipo) ==
    {cat \in cats :
        IF cat.Finalidade = Ambas THEN TRUE ELSE cat.Finalidade = tipo}

(* getPessoaSelecionada: pessoas.find(p => p.id === parseInt(pessoaId))    *)
getPessoaSelecionada(ps, id) == Find(ps, id)

(* App renders TransacoesManager for the active tab only and starts on     *)
(* another tab: going to the tab mounts the component with the initial     *)
(* useState values, and useEffect calls loadData, which sets loading and   *)
(* sends its three GETs.  Under React.StrictMode the development build     *)
(* runs the effect twice, the production build once: n is the number of    *)
(* loadData calls of the mount.                                            *)
Montar(n) ==
    /\ fPc = "desmontado"
    /\ fPc' = "carregando"
    /\ fTipo' = Despesa
    /\ fPessoaId' = 0
    /\ fCategoriaId' = 0
    /\ fPessoas' = {}
    /\ fCategorias' = {}
    /\ fCargas' = [c \in {NovaCarga} |-> n]
    /\ UNCHANGED <<store, prox, resposta, emCurso>>

(* setAbaAtiva to another tab unmounts the component: its state is gone    *)
(* and the continuations of its loadData and handleSubmit calls set        *)
(* nothing.  A POST that was sent still reaches the server.                *)
Abandona(c) == IF c.de = "form" THEN [c EXCEPT !.de = "desmontado"] ELSE c

Desmontar ==
    /\ fPc # "desmontado"
    /\ fPc' = "desmontado"
    /\ fTipo' = Despesa
    /\ fPessoaId' = 0
    /\ fCategoriaId' = 0
    /\ fPessoas' = {}
    /\ fCategorias' = {}
    /\ fCargas' = EmptyBag
    /\ post' =
         [a \in {Abandona(c) : c \in BagToSet(post)} |->
            CopiesIn(a, post)
              + IF a.de = "desmontado"
                THEN CopiesIn([a EXCEPT !.de = "form"], post) ELSE 0]
    /\ UNCHANGED <<store, prox, resposta, del>>

(* The loadData call c goes on as e                                        *)
Segue(c, e) == (fCargas (-) SetToBag({c})) (+) SetToBag({e})

(* The GETs of a loadData call, each answered by its handler with the rows *)
(* of the table at that moment.  The answer of GET /transacoes fills the   *)
(* list of transactions only, which is not kept: whenever it arrives, it   *)
(* changes nothing here.                                                   *)
GetPessoas(c) ==
    /\ BagIn(c, fCargas)
    /\ c.pessoas = <<>>
    /\ fCargas' = Segue(c, [c EXCEPT !.pessoas = <<pessoas>>])
    /\ UNCHANGED <<store, prox, resposta, emCurso, fPc, fTipo, fPessoaId,
                   fCategoriaId, fPessoas, fCategorias>>

GetCategorias(c) ==
    /\ BagIn(c, fCargas)
    /\ c.categorias = <<>>
    /\ fCargas' = Segue(c, [c EXCEPT !.categorias = <<categorias>>])
    /\ UNCHANGED <<store, prox, resposta, emCurso, fPc, fTipo, fPessoaId,
                   fCategoriaId, fPessoas, fCategorias>>

(* loadData after Promise.all: the answers are there (that of GET          *)
(* /transacoes has arrived by now), the lists are set and finally ends     *)
(* loading.                                                                *)
LoadData(c) ==
    /\ BagIn(c, fCargas)
    /\ c.pessoas # <<>>
    /\ c.categorias # <<>>
    /\ fPessoas' = c.pessoas[1]
    /\ fCategorias' = c.categorias[1]
    /\ fPc' = "pronto"
    /\ fCargas' = fCargas (-) SetToBag({c})
    /\ UNCHANGED <<store, prox, resposta, emCurso, fTipo, fPessoaId,
                   fCategoriaId>>

(* loadData when one of its GETs fails: catch shows the error, the lists   *)
(* stay and finally ends loading.                                          *)
LoadDataFalha(c) ==
    /\ BagIn(c, fCargas)
    /\ fPc' = "pronto"
    /\ fCargas' = fCargas (-) SetToBag({c})
    /\ UNCHANGED <<store, prox, resposta, emCurso, fTipo, fPessoaId,
                   fCategoriaId, fPessoas, fCategorias>>

(* The person select: '' or one of the options, the loaded people.  The    *)
(* controls of the form are disabled while loading.                        *)
SelecionarPessoa(v) ==
    /\ fPc = "pronto"
    /\ v = 0 \/ \E p \in fPessoas : p.Id = v
    /\ fPessoaId' = v
    /\ UNCHANGED <<store, prox, resposta, emCurso,
                   fPc, fTipo, fCategoriaId, fPessoas, fCategorias,
                   fCargas>>

(* Variant: the kind select does not clear the category.                   *)
MudarTipoSemLimpar(tp) ==
    /\ fPc = "pronto"
    /\ fTipo' = tp
    /\ UNCHANGED <<store, prox, resposta, emCurso,
                   fPc, fPessoaId, fCategoriaId, fPessoas, fCategorias,
                   fCargas>>

(* The kind select: setTipo and setCategoriaId('')                         *)
MudarTipo(tp) ==
    /\ fPc = "pronto"
    /\ fTipo' = tp
    /\ fCategoriaId' = 0
    /\ UNCHANGED <<store, prox, resposta, emCurso,
                   fPc, fPessoaId, fPessoas, fCategorias, fCargas>>

(* The category select: '' or one of the options, the compatible ones      *)
SelecionarCategoria(v) ==
    /\ fPc = "pronto"
    /\ \/ v = 0
       \/ \E cat \in getCategoriasCompativeis(fCategorias, fTipo) : cat.Id = v
    /\ fCategoriaId' = v
    /\ UNCHANGED <<store, prox, resposta, emCurso,
                   fPc, fTipo, fPessoaId, fPessoas, fCategorias,
                   fCargas>>

MsgSelecionePessoa == "Selecione uma pessoa"
MsgSelecioneCategoria == "Selecione uma categoria"

(* String.prototype.trim: the white space and the line terminators of      *)
(* ECMAScript, which are those of char.IsWhiteSpace without U+0085 and     *)
(* with U+FEFF.                                                            *)
WhiteSpaceJS == (WhiteSpace \ {NEL}) \cup {BOM}
RECURSIVE TrimStart(_)
TrimStart(s) ==
    IF s # <<>> /\ Head(s) \in WhiteSpaceJS THEN TrimStart(Tail(s)) ELSE s
RECURSIVE TrimEnd(_)
TrimEnd(s) ==
    IF s # <<>> /\ s[Len(s)] \in WhiteSpaceJS
    THEN TrimEnd(SubSeq(s, 1, Len(s) - 1)) ELSE s
Trim(s) == TrimEnd(TrimStart(s))

(* The validations of handleSubmit before the call of the API: the error   *)
(* it shows, or "" when it goes on to createTransacao.                     *)
ErroDoForm(d, v) ==
    IF Trim(d) = <<>> THEN MsgDescricao
    ELSE IF v <= 0 THEN MsgValor
    ELSE IF fPessoaId = 0 THEN MsgSelecionePessoa
    ELSE IF fCategoriaId = 0 THEN MsgSelecioneCategoria
    ELSE IF \E pessoa \in getPessoaSelecionada(fPessoas, fPessoaId) :
               pessoa.Idade < MaioridadeIdade /\ fTipo = Receita
         THEN MsgMenor
    ELSE ""

(* The object handleSubmit passes to createTransacao                       *)
RequisicaoDoForm(d, v) ==
    TransacaoBody(0, Trim(d), v, fTipo, fCategoriaId, fPessoaId, <<>>, <<>>)

(* What is typed in the description and amount fields                      *)
DescricoesDigitadas ==
    {Branco, Luz, Branco \o Luz \o Branco, <<BOM>>, <<NBSP>>, <<NEL>>}
ValoresDigitados == Valores

(* The createTransacao call handleSubmit makes: a POST of req on its way.  *)
NovoEnvio(req) == Chamada(req, "form")

(* handleSubmit to the call of createTransacao: the validations, and when  *)
(* they pass setLoading(true) and the POST is sent; the fields stay.       *)
(* Nothing but disabled={loading} stands in the way of a submit, so the    *)
(* form can have several POSTs in flight: loading is false again while a   *)
(* POST is unanswered when another loadData call ends or the component is  *)
(* mounted again.  MaxEnvios caps their number.                            *)
HandleSubmit(d, v) ==
    /\ fPc = "pronto"
    /\ UNCHANGED <<store, prox, del, resposta,
                   fTipo, fPessoaId, fCategoriaId, fPessoas, fCategorias,
                   fCargas>>
    /\ IF ErroDoForm(d, v) # ""
       THEN UNCHANGED <<fPc, post>>
       ELSE /\ BagCardinality(fEnvios) < MaxEnvios
            /\ fPc' = "carregando"
            /\ post' = post (+) SetToBag({NovoEnvio(RequisicaoDoForm(d, v))})

(* The POST of the call e is on its way to the server.                     *)
Chegou(e) == BagIn(e, fEnvios) /\ e.pc = "enviado"

(* handleSubmit after createTransacao.  On 201 the fields are reset and    *)
(* loadData is called, which sends its GETs; on an error catch shows it,   *)
(* the fields stay and finally ends loading.  An answer that arrives after *)
(* the component was unmounted sets nothing.                               *)
HandleSubmitResposta(e) ==
    /\ BagIn(e, fEnvios)
    /\ e.pc = "respondido"
    /\ post' = post (-) SetToBag({e})
    /\ UNCHANGED <<store, prox, del, resposta, fPessoas, fCategorias>>
    /\ IF e.de # "form"
       THEN UNCHANGED <<fPc, fTipo, fPessoaId, fCategoriaId, fCargas>>
       ELSE IF e.status = 201
       THEN /\ fTipo' = Despesa
            /\ fPessoaId' = 0
            /\ fCategoriaId' = 0
            /\ fPc' = "carregando"
            /\ fCargas' = fCargas (+) SetToBag({NovaCarga})
       ELSE /\ fPc' = "pronto"
            /\ UNCHANGED <<fTipo, fPessoaId, fCategoriaId, fCargas>>

(* The other clients of the API create the people and the categories of    *)
(* these keys, and delete people one at a time.                            *)
PessoaIdsForm == {1}
CategoriaIdsForm == {1}
PessoaRequestsForm == {PessoaBody(0, Ana, i, <<>>) : i \in {17, 18}}
CategoriaRequestsForm ==
    {CategoriaBody(0, Luz, f, <<>>) : f \in finalidadesValidas}

NextForm ==
    \/ \E p \in PessoaRequestsForm :
         proxPessoaId \in PessoaIdsForm /\ PostPessoa(p, FALSE)
    \/ \E c \in CategoriaRequestsForm :
         proxCategoriaId \in CategoriaIdsForm /\ PostCategoria(c, FALSE)
    \/ \E id \in PessoaIds : DeletePessoaFind(1, id, FALSE)
    \/ DeletePessoaRemove(1)
    \/ DeletePessoaToList(1)
    \/ DeletePessoaAnyAsync(1)
    \/ DeletePessoaSaveChanges(1)
    \/ \E n \in 1..2 : Montar(n)
    \/ Desmontar
    \/ \E c \in BagToSet(fCargas) : GetPessoas(c)
    \/ \E c \in BagToSet(fCargas) : GetCategorias(c)
    \/ \E c \in BagToSet(fCargas) : LoadData(c)
    \/ \E c \in BagToSet(fCargas) : LoadDataFalha(c)
    \/ \E v \in {0} \cup PessoaIds : SelecionarPessoa(v)
    \/ \E tp \in tiposValidos : MudarTipo(tp)
    \/ \E v \in {0} \cup CategoriaIds : SelecionarCategoria(v)
    \/ \E d \in DescricoesDigitadas, v \in ValoresDigitados : HandleSubmit(d, v)
    \/ \E e \in BagToSet(fEnvios) : Chegou(e) /\ PostTransacaoFindPessoa(e)
    \/ \E c \in BagToSet(post) : PostTransacaoFindCategoria(c)
    \/ \E c \in BagToSet(post) : PostTransacaoSaveChanges(c)
    \/ \E c \in BagToSet(post) : PostTransacaoLoadPessoa(c)
    \/ \E c \in BagToSet(post) : PostTransacaoLoadCategoria(c)
    \/ \E e \in BagToSet(fEnvios) : HandleSubmitResposta(e)

SpecForm == Init /\ [][NextForm]_vars

----------------------------------------------------------------------------
(* Vocabulary of the claims.                                               *)

(* The reason a response carries, in the taxonomy of spec.md section 7.    *)
Motivo(r) ==
    IF r.status = 201 THEN "Accepted"
    ELSE IF r.mensagem \in {MsgValidacao, MsgDescricao, MsgValor, MsgTipo}
         THEN "InvalidInput"
    ELSE IF r.mensagem = MsgPessoa THEN "NotFound(person)"
    ELSE IF r.mensagem = MsgMenor THEN "Forbidden(minorIncome)"
    ELSE IF r.mensagem = MsgCategoria THEN "NotFound(category)"
    ELSE IF r.mensagem \in {MsgSoReceitas, MsgSoDespesas}
         THEN "Forbidden(categoryMismatch)"
    ELSE "Other"

(* A description that is not empty: it has a character that is not white   *)
(* space ("não pode ser vazia" in the repository's words).                 *)
DescricaoPreenchida(d) == \E i \in 1..Len(d) : d[i] \notin WhiteSpace

CamposValidos(t) ==
    /\ DescricaoPreenchida(t.Descricao)
    /\ t.Valor > 0
    /\ t.Tipo \in {Despesa, Receita}

PessoaExiste(t, ps) == \E p \in ps : p.Id = t.PessoaId
CategoriaExiste(t, cs) == \E c \in cs : c.Id = t.CategoriaId
IdadeDe(t, ps) == (CHOOSE p \in ps : p.Id = t.PessoaId).Idade
FinalidadeDe(t, cs) == (CHOOSE c \in cs : c.Id = t.CategoriaId).Finalidade

RegraDoMenorViolada(t, ps) == IdadeDe(t, ps) < 18 /\ t.Tipo = Receita
CategoriaIncompativel(t, cs) ==
    \/ t.Tipo = Despesa /\ FinalidadeDe(t, cs) = Receita
    \/ t.Tipo = Receita /\ FinalidadeDe(t, cs) = Despesa

(* The reason of the first violated check, in the order of spec.md 4.1.    *)
PrimeiraViolacao(t, ps, cs) ==
    IF ~CamposValidos(t) THEN "InvalidInput"
    ELSE IF ~PessoaExiste(t, ps) THEN "NotFound(person)"
    ELSE IF RegraDoMenorViolada(t, ps) THEN "Forbidden(minorIncome)"
    ELSE IF ~CategoriaExiste(t, cs) THEN "NotFound(category)"
    ELSE IF CategoriaIncompativel(t, cs) THEN "Forbidden(categoryMismatch)"
    ELSE "Accepted"

(* The step is the one in which PostTransacao answers; its request is      *)
(* resposta'.req.  Under Spec no other request is in course, so the store  *)
(* of the step is the store the handler read.                              *)
RespondeuPostTransacao ==
    resposta'.op = "PostTransacao" /\ resposta'.status # 0

(* The step is the SaveChangesAsync of the PostTransacao call c and it     *)
(* committed; the request is c.req.                                        *)
SalvouTransacao(c) ==
    /\ BagIn(c, post)
    /\ c.pc = "salvar"
    /\ \E id \in 1..MaxTransacoes :
         post' = (post (-) SetToBag({c}))
                   (+) SetToBag({[c EXCEPT !.pc = "pessoa", !.req.Id = id]})

(* The state follows an answer of PostTransacao; its request is            *)
(* resposta.req                                                            *)
AposPostTransacao == resposta.op = "PostTransacao" /\ resposta.status # 0

(* The step is the first SaveChangesAsync of the DeletePessoa call d and   *)
(* it committed; the step is its second SaveChangesAsync and it committed. *)
RemoveuPessoa(d) == del[d].pc = "remover" /\ del'[d].pc = "lista"
VarreuCategorias(d) ==
    /\ del[d].pc = "commit"
    /\ del'[d].pc = "ocioso"
    /\ resposta'.op = "DeletePessoa"
    /\ resposta'.status = 200

(* The call d has removed its person and has not answered.                 *)
EntreOsCommits(d) == del[d].pc \in {"lista", "laco", "commit"}

AposDeletePessoa == resposta.op = "DeletePessoa" /\ resposta.status = 200

----------------------------------------------------------------------------
(* C1: PostTransacao evaluates its checks in the order fields, person      *)
(* exists, minor rule, category exists, category/type compatibility: for   *)
(* every request and every store, when a check is violated the reason      *)
(* returned is that of the first violated check, and a rejection carries   *)
(* no other reason.                                                        *)
C1_PrimeiraFalhaVence ==
    [][RespondeuPostTransacao =>
         LET primeira ==
                 PrimeiraViolacao(resposta'.req, pessoas, categorias) IN
         /\ primeira # "Accepted" => Motivo(resposta') = primeira
         /\ resposta'.status = 400 => Motivo(resposta') = primeira]_vars

(* The person is missing and so is the category: the answer names the      *)
(* person.                                                                 *)
C1_Witness ==
    /\ AposPostTransacao
    /\ CamposValidos(resposta.req)
    /\ ~PessoaExiste(resposta.req, pessoas)
    /\ ~CategoriaExiste(resposta.req, categorias)
    /\ Motivo(resposta) = "NotFound(person)"

(* C2: PostTransacao accepts a request if and only if all five checks      *)
(* pass; a minor's expense and any kind on an "Ambas" category pass, and   *)
(* there is no other ground for rejection.                                 *)
C2_AceitaSse ==
    [][RespondeuPostTransacao =>
         LET t == resposta'.req IN
         (resposta'.status = 201) <=>
            /\ DescricaoPreenchida(t.Descricao)
            /\ t.Valor > 0
            /\ t.Tipo \in {Despesa, Receita}
            /\ PessoaExiste(t, pessoas)
            /\ ~(IdadeDe(t, pessoas) < 18 /\ t.Tipo = Receita)
            /\ CategoriaExiste(t, categorias)
            /\ ~(t.Tipo = Despesa /\ FinalidadeDe(t, categorias) = Receita)
            /\ ~(t.Tipo = Receita /\ FinalidadeDe(t, categorias) = Despesa)]_vars

(* C3: an income for an existing minor, with valid fields, is rejected     *)
(* with the minor-income reason whatever the category id, and nothing is   *)
(* stored.                                                                 *)
C3_MenorSemReceita ==
    [][(/\ RespondeuPostTransacao
        /\ CamposValidos(resposta'.req)
        /\ resposta'.req.Tipo = Receita
        /\ \E p \in pessoas : p.Id = resposta'.req.PessoaId /\ p.Idade < 18)
       => /\ Motivo(resposta') = "Forbidden(minorIncome)"
          /\ post = EmptyBag
          /\ transacoes' = transacoes]_vars

(* The minor's income named a category that is not in the store.           *)
C3_Witness ==
    /\ AposPostTransacao
    /\ resposta.req.Tipo = Receita
    /\ PessoaExiste(resposta.req, pessoas)
    /\ IdadeDe(resposta.req, pessoas) < 18
    /\ ~CategoriaExiste(resposta.req, categorias)
    /\ Motivo(resposta) = "Forbidden(minorIncome)"

(* C4, as claimed: with valid fields, an existing person of any age and an *)
(* existing category, an income on a "Despesa" category and an expense on  *)
(* a "Receita" category always fail with the category-mismatch reason.     *)
C4_Original ==
    [][(/\ RespondeuPostTransacao
        /\ CamposValidos(resposta'.req)
        /\ PessoaExiste(resposta'.req, pessoas)
        /\ CategoriaExiste(resposta'.req, categorias)
        /\ CategoriaIncompativel(resposta'.req, categorias))
       => Motivo(resposta') = "Forbidden(categoryMismatch)"]_vars

(* C4, amended: the expense on a "Receita" category fails with the         *)
(* category-mismatch reason for a person of any age; the income on a       *)
(* "Despesa" category does so when the person is 18 or older (for a minor  *)
(* the minor-income reason comes first).                                   *)
C4_IncompatibilidadeDeCategoria ==
    [][(/\ RespondeuPostTransacao
        /\ CamposValidos(resposta'.req)
        /\ PessoaExiste(resposta'.req, pessoas)
        /\ CategoriaExiste(resposta'.req, categorias))
       => LET t == resposta'.req IN
          /\ (t.Tipo = Despesa /\ FinalidadeDe(t, categorias) = Receita)
                => Motivo(resposta') = "Forbidden(categoryMismatch)"
          /\ (/\ t.Tipo = Receita /\ FinalidadeDe(t, categorias) = Despesa
              /\ IdadeDe(t, pessoas) >= 18)
                => Motivo(resposta') = "Forbidden(categoryMismatch)"
          /\ (/\ t.Tipo = Receita /\ FinalidadeDe(t, categorias) = Despesa
              /\ IdadeDe(t, pessoas) < 18)
                => Motivo(resposta') = "Forbidden(minorIncome)"]_vars

(* A minor's expense on a "Receita" category was rejected as a mismatch.   *)
C4_Witness ==
    /\ AposPostTransacao
    /\ resposta.req.Tipo = Despesa
    /\ PessoaExiste(resposta.req, pessoas)
    /\ IdadeDe(resposta.req, pessoas) < 18
    /\ CategoriaExiste(resposta.req, categorias)
    /\ FinalidadeDe(resposta.req, categorias) = Receita
    /\ Motivo(resposta) = "Forbidden(categoryMismatch)"

(* C5: the threshold is exactly 18: an income of a person aged 18 or more  *)
(* is never rejected with the minor-income reason; with valid fields an    *)
(* income of a person aged 17 always is.                                   *)
C5_LimiarDezoito ==
    [][(/\ RespondeuPostTransacao
        /\ resposta'.req.Tipo = Receita
        /\ PessoaExiste(resposta'.req, pessoas))
       => LET t == resposta'.req IN
          /\ IdadeDe(t, pessoas) >= 18
                => Motivo(resposta') # "Forbidden(minorIncome)"
          /\ (IdadeDe(t, pessoas) = 17 /\ CamposValidos(t))
                => Motivo(resposta') = "Forbidden(minorIncome)"]_vars

(* An income of a person aged exactly 18 was accepted.                     *)
C5_Witness ==
    /\ AposPostTransacao
    /\ resposta.req.Tipo = Receita
    /\ PessoaExiste(resposta.req, pessoas)
    /\ IdadeDe(resposta.req, pessoas) = 18
    /\ resposta.status = 201

(* C6: a rejected PostTransacao, whichever check fails, leaves people,     *)
(* categories and transactions as they were: the step that rejects writes  *)
(* nothing, and so does every step of the handler up to it.                *)
C6_RejeicaoNaoAltera ==
    [][/\ (RespondeuPostTransacao /\ resposta'.status # 201)
            => /\ pessoas' = pessoas
               /\ categorias' = categorias
               /\ transacoes' = transacoes
               /\ \A c \in BagToSet(post) : c.pc \in {"categoria", "salvar"}
       /\ (/\ resposta'.op = "PostTransacao"
           /\ \A c \in BagToSet(post) : c.pc = "categoria")
            => store' = store]_vars

(* A request was rejected by the last check over a store that holds        *)
(* people, categories and transactions.                                    *)
C6_Witness ==
    /\ AposPostTransacao
    /\ Motivo(resposta) = "Forbidden(categoryMismatch)"
    /\ pessoas # {} /\ categorias # {} /\ transacoes # {}

(* C7: a successful PostTransacao adds exactly one transaction, with the   *)
(* submitted description, amount, kind, person id and category id, and     *)
(* changes neither people, categories nor the transactions stored before.  *)
C7_SucessoAdicionaUma ==
    [][\A c \in BagToSet(post) : SalvouTransacao(c)
       => /\ \E n \in transacoes' :
               /\ n \notin transacoes
               /\ transacoes' = transacoes \cup {n}
               /\ n.Descricao = c.req.Descricao
               /\ n.Valor = c.req.Valor
               /\ n.Tipo = c.req.Tipo
               /\ n.PessoaId = c.req.PessoaId
               /\ n.CategoriaId = c.req.CategoriaId
          /\ Cardinality(transacoes') = Cardinality(transacoes) + 1
          /\ pessoas' = pessoas
          /\ categorias' = categorias]_vars

(* C8: DeletePessoa(p) leaves exactly the transactions of the other        *)
(* people: its first commit removes the transactions of p and no other,    *)
(* and its sweep touches no transaction.                                   *)
C8_CascataExata ==
    [][\A d \in Deleters :
         /\ RemoveuPessoa(d)
              => /\ transacoes' = {t \in transacoes : t.PessoaId # del[d].id}
                 /\ \A t \in transacoes' : t.PessoaId # del[d].id
         /\ EntreOsCommits(d) => transacoes' = transacoes]_vars

(* A person with a transaction was deleted and the transaction of another  *)
(* person is still stored.                                                 *)
C8_Witness ==
    /\ AposDeletePessoa
    /\ transacoes # {}
    /\ Cardinality(transacoes) < proxTransacaoId - 1
    /\ \A t \in transacoes : t.PessoaId # resposta.req.Id

(* C9: the sweep of a DeletePessoa that removed its person commits and     *)
(* removes exactly the categories that have no transaction once the        *)
(* person's transactions are gone, over the whole table, and keeps every   *)
(* category that has one.                                                  *)
C9_SweepExato ==
    [][\A d \in Deleters :
         (del[d].pc = "commit" /\ del'[d].pc = "ocioso")
         => /\ VarreuCategorias(d)
            /\ categorias' =
                 {c \in categorias : \E t \in transacoes : t.CategoriaId = c.Id}]_vars

(* Only one transaction was ever created and it is still stored, so it is  *)
(* not of the deleted person: the delete removed a category that nobody    *)
(* ever used and kept the category of that transaction.                    *)
C9_Witness ==
    /\ AposDeletePessoa
    /\ proxTransacaoId = 2
    /\ Cardinality(transacoes) = 1
    /\ resposta.removidas = 1
    /\ \A t \in transacoes : \E c \in categorias : c.Id = t.CategoriaId

(* C10: in every reachable state, those between the two commits of         *)
(* DeletePessoa included, every stored transaction references a stored     *)
(* person.                                                                 *)
C10_TransacaoTemPessoa ==
    \A t \in transacoes : \E p \in pessoas : p.Id = t.PessoaId

(* Between the two commits, after a cascade removed a transaction, with    *)
(* another person's transaction still stored.                              *)
C10_Witness ==
    /\ \E d \in Deleters : EntreOsCommits(d)
    /\ transacoes # {}
    /\ Cardinality(transacoes) < proxTransacaoId - 1

(* C11: DeletePessoa for a key that is not in the table (never created or  *)
(* already deleted) answers NotFound(person), runs no sweep and leaves     *)
(* people, transactions and categories as they were; categories without    *)
(* transactions stay.                                                      *)
C11_DeleteInexistente ==
    [][(/\ Ocioso
        /\ resposta'.op = "DeletePessoa"
        /\ ~\E p \in pessoas : p.Id = resposta'.req.Id)
       => /\ resposta'.status = 404
          /\ Motivo(resposta') = "NotFound(person)"
          /\ Ocioso'
          /\ pessoas' = pessoas
          /\ transacoes' = transacoes
          /\ categorias' = categorias]_vars

(* The delete of an already deleted person was refused while a category    *)
(* without transactions is in the store.                                   *)
C11_Witness ==
    /\ resposta.op = "DeletePessoa"
    /\ resposta.status = 404
    /\ resposta.req.Id < proxPessoaId
    /\ \E c \in categorias : \A t \in transacoes : t.CategoriaId # c.Id

(* C12: the count a successful DeletePessoa reports is the number of       *)
(* categories the call removed from the store; when the deleted person     *)
(* held the only transaction of the only orphaned category, the count is   *)
(* 1 and that category is gone.                                            *)
C12_ContagemDeOrfas ==
    [][\A d \in Deleters :
         VarreuCategorias(d)
         => /\ categorias' \subseteq categorias
            /\ resposta'.removidas = Cardinality(categorias \ categorias')]_vars

(* The only transaction ever stored went with its owner, its category was  *)
(* removed in the same call and the count reported is 1.                   *)
C12_Witness ==
    /\ AposDeletePessoa
    /\ proxTransacaoId = 2
    /\ transacoes = {}
    /\ proxCategoriaId = 2
    /\ categorias = {}
    /\ resposta.removidas = 1

(* The response on display is a report.                                    *)
AposRelatorioPorPessoa == resposta.op = "GetTotaisPorPessoa"
AposRelatorioPorCategoria == resposta.op = "GetTotaisPorCategoria"

(* The sum of the amounts of the stored transactions of one kind           *)
SomaDoTipo(tipo) == Sum({t \in transacoes : t.Tipo = tipo})

(* C15: in every reachable state the grand income and the grand expense    *)
(* of the report by person equal those of the report by category, and      *)
(* both equal the sums of amounts by kind over all stored transactions.    *)
C15_TotaisGeraisIguais ==
    LET porPessoa == RelatorioPorPessoa(pessoas, transacoes).totalGeral
        porCategoria == RelatorioPorCategoria(categorias, transacoes).totalGeral
    IN /\ porPessoa.totalReceitas = porCategoria.totalReceitas
       /\ porPessoa.totalDespesas = porCategoria.totalDespesas
       /\ porPessoa.totalReceitas = SomaDoTipo(Receita)
       /\ porPessoa.totalDespesas = SomaDoTipo(Despesa)
       /\ AposRelatorioPorPessoa => resposta.corpo.totalGeral = porPessoa
       /\ AposRelatorioPorCategoria => resposta.corpo.totalGeral = porCategoria

(* A report by category was served while an income and an expense of       *)
(* different people and different categories are stored.                   *)
C15_Witness ==
    /\ AposRelatorioPorCategoria
    /\ resposta.corpo.totalGeral.totalReceitas > 0
    /\ resposta.corpo.totalGeral.totalDespesas > 0
    /\ \E t, u \in transacoes :
         /\ t.PessoaId # u.PessoaId
         /\ t.CategoriaId # u.CategoriaId

(* The keys a report lists, in list order                                  *)
ChavesPorPessoa(corpo) ==
    [i \in 1..Len(corpo.pessoas) |-> corpo.pessoas[i].pessoaId]
ChavesPorCategoria(corpo) ==
    [i \in 1..Len(corpo.categorias) |-> corpo.categorias[i].categoriaId]

(* Every key of the set occurs exactly once in the sequence, and nothing   *)
(* else does.                                                              *)
ListaCadaUmaUmaVez(chaves, ids) ==
    /\ Len(chaves) = Cardinality(ids)
    /\ {chaves[i] : i \in 1..Len(chaves)} = ids

(* An entry with no money: totalReceitas = totalDespesas = saldo = 0       *)
Zerada(e) == e.totalReceitas = 0 /\ e.totalDespesas = 0 /\ e.saldo = 0

(* C16: the report by person lists every stored person exactly once and    *)
(* the report by category every stored category exactly once; nothing      *)
(* that is not in the store is listed, and an entity without transactions  *)
(* is listed with income 0, expense 0 and balance 0.                       *)
C16_ListaCompleta ==
    /\ AposRelatorioPorPessoa =>
         /\ ListaCadaUmaUmaVez(ChavesPorPessoa(resposta.corpo),
                               {p.Id : p \in pessoas})
         /\ \A i \in 1..Len(resposta.corpo.pessoas) :
              LET e == resposta.corpo.pessoas[i] IN
              /\ [Id |-> e.pessoaId, Nome |-> e.nome, Idade |-> e.idade]
                    \in pessoas
              /\ (\A t \in transacoes : t.PessoaId # e.pessoaId) => Zerada(e)
    /\ AposRelatorioPorCategoria =>
         /\ ListaCadaUmaUmaVez(ChavesPorCategoria(resposta.corpo),
                               {c.Id : c \in categorias})
         /\ \A i \in 1..Len(resposta.corpo.categorias) :
              LET e == resposta.corpo.categorias[i] IN
              /\ [Id |-> e.categoriaId, Descricao |-> e.descricao,
                  Finalidade |-> e.finalidade] \in categorias
              /\ (\A t \in transacoes : t.CategoriaId # e.categoriaId)
                    => Zerada(e)

(* A report by person was served with two people stored, one of them       *)
(* without transactions and listed with zeros.                             *)
C16_Witness ==
    /\ AposRelatorioPorPessoa
    /\ Len(resposta.corpo.pessoas) = 2
    /\ Zerada(resposta.corpo.pessoas[1])
    /\ ~Zerada(resposta.corpo.pessoas[2])

(* The sum of the amounts of the stored transactions of one kind that     *)
(* reference the person, or the category, with the given key               *)
SomaDaPessoa(id, tipo) ==
    Sum({t \in transacoes : t.PessoaId = id /\ t.Tipo = tipo})
SomaDaCategoria(id, tipo) ==
    Sum({t \in transacoes : t.CategoriaId = id /\ t.Tipo = tipo})

(* C17: for every group of either report totalIncome is the sum of the     *)
(* amounts of the group's transactions of kind 'Receita' and totalExpense  *)
(* the sum of those of kind 'Despesa'; every stored amount is strictly     *)
(* positive, so both are non-negative.                                     *)
C17_TotaisPorGrupo ==
    /\ \A t \in transacoes : t.Valor > 0
    /\ AposRelatorioPorPessoa =>
         \A i \in 1..Len(resposta.corpo.pessoas) :
            LET e == resposta.corpo.pessoas[i] IN
            /\ e.totalReceitas = SomaDaPessoa(e.pessoaId, Receita)
            /\ e.totalDespesas = SomaDaPessoa(e.pessoaId, Despesa)
            /\ e.totalReceitas >= 0
            /\ e.totalDespesas >= 0
    /\ AposRelatorioPorCategoria =>
         \A i \in 1..Len(resposta.corpo.categorias) :
            LET e == resposta.corpo.categorias[i] IN
            /\ e.totalReceitas = SomaDaCategoria(e.categoriaId, Receita)
            /\ e.totalDespesas = SomaDaCategoria(e.categoriaId, Despesa)
            /\ e.totalReceitas >= 0
            /\ e.totalDespesas >= 0

(* A report by category was served with a category that holds an income    *)
(* and an expense at once.                                                 *)
C17_Witness ==
    /\ AposRelatorioPorCategoria
    /\ \E i \in 1..Len(resposta.corpo.categorias) :
         /\ resposta.corpo.categorias[i].totalReceitas > 0
         /\ resposta.corpo.categorias[i].totalDespesas > 0

(* C18: in both reports balance = totalIncome - totalExpense, exactly, in  *)
(* whole cents, for every group and for the grand total.                   *)
C18_SaldoExato ==
    /\ AposRelatorioPorPessoa =>
         /\ \A i \in 1..Len(resposta.corpo.pessoas) :
              LET e == resposta.corpo.pessoas[i] IN
              e.saldo = e.totalReceitas - e.totalDespesas
         /\ resposta.corpo.totalGeral.saldoLiquido =
              resposta.corpo.totalGeral.totalReceitas
                - resposta.corpo.totalGeral.totalDespesas
    /\ AposRelatorioPorCategoria =>
         /\ \A i \in 1..Len(resposta.corpo.categorias) :
              LET e == resposta.corpo.categorias[i] IN
              e.saldo = e.totalReceitas - e.totalDespesas
         /\ resposta.corpo.totalGeral.saldoLiquido =
              resposta.corpo.totalGeral.totalReceitas
                - resposta.corpo.totalGeral.totalDespesas

(* A report by person was served in which one person has a negative        *)
(* balance, another a positive one, and the grand balance is zero.         *)
C18_Witness ==
    /\ AposRelatorioPorPessoa
    /\ Len(resposta.corpo.pessoas) = 2
    /\ \E i, j \in 1..2 :
         /\ resposta.corpo.pessoas[i].saldo < 0
         /\ resposta.corpo.pessoas[j].saldo > 0
    /\ resposta.corpo.totalGeral.saldoLiquido = 0
    /\ resposta.corpo.totalGeral.totalReceitas > 0

(* C19: in every reachable state every stored transaction satisfies the    *)
(* admission rules against the current store: its person and its category  *)
(* are stored, its kind is compatible with the purpose of its category,    *)
(* and if its owner is under 18 its kind is 'Despesa'.                     *)
C19_AdmissaoPreservada ==
    \A t \in transacoes :
        /\ PessoaExiste(t, pessoas)
        /\ CategoriaExiste(t, categorias)
        /\ ~CategoriaIncompativel(t, categorias)
        /\ IdadeDe(t, pessoas) < 18 => t.Tipo = Despesa

(* C20: a stored transaction never changes a field, and a step in which    *)
(* a stored transaction leaves the store is the commit of the DeletePessoa *)
(* of the person who owns it; no other operation removes or alters a       *)
(* transaction.                                                            *)
C20_TransacaoImutavel ==
    [][\A t \in transacoes :
         /\ \A u \in transacoes' : u.Id = t.Id => u = t
         /\ t \notin transacoes' =>
              /\ \E d \in Deleters : RemoveuPessoa(d) /\ del[d].id = t.PessoaId
              /\ resposta'.op = "DeletePessoa"
              /\ resposta'.req.Id = t.PessoaId
              /\ ~PessoaExiste(t, pessoas')]_vars

(* The person removal has just committed: of two transactions created,     *)
(* the one of the deleted person is gone and the one of the other person   *)
(* is stored.                                                              *)
C20_Witness ==
    /\ \E d \in Deleters : del[d].pc = "lista" /\ del[d].id = resposta.req.Id
    /\ resposta.op = "DeletePessoa"
    /\ proxTransacaoId = 3
    /\ Cardinality(transacoes) = 1
    /\ \A t \in transacoes : t.PessoaId # resposta.req.Id

(* The last DeletePessoa committed the removal of the person and stopped   *)
(* before the sweep; nothing has run since.                                *)
Interrompida ==
    /\ Ocioso
    /\ resposta.op = "DeletePessoa"
    /\ resposta.status = 0
    /\ Find(pessoas, resposta.req.Id) = {}

(* The categories a sweep over the current store removes                   *)
Orfas == {c \in categorias : \A t \in transacoes : t.CategoriaId # c.Id}

(* C13: DeletePessoa is a single logical transaction: when the removal of  *)
(* the person has committed without the sweep, issuing the same deletion   *)
(* again performs the sweep, and the store ends as an uninterrupted        *)
(* deletion leaves it.                                                     *)
C13_TransacaoLogicaUnica ==
    [][(/\ Interrompida
        /\ resposta'.op = "DeletePessoa"
        /\ resposta'.req.Id = resposta.req.Id)
       => /\ categorias' = categorias \ Orfas
          /\ pessoas' = pessoas
          /\ transacoes' = transacoes]_vars

(* The people a DeletePessoa has removed: their keys were handed out and   *)
(* are not in the table.                                                   *)
Removidas == {id \in PessoaIds : id < proxPessoaId /\ Find(pessoas, id) = {}}

(* C14: with PostTransacao for a person running beside the DeletePessoa of *)
(* that person, step by step at their store reads and commits, no          *)
(* reachable state holds a transaction that references a removed person.   *)
C14_SemTransacaoDeRemovida ==
    \A id \in Removidas : \A t \in transacoes : t.PessoaId # id

(* The race happened: PostTransacao found the person and the category,     *)
(* DeletePessoa then committed the removal of the person, and the insert   *)
(* was refused by the database while the category is still stored; the     *)
(* delete has not answered yet.                                            *)
C14_Witness ==
    /\ AposPostTransacao
    /\ resposta.status = 500
    /\ resposta.req.PessoaId \in Removidas
    /\ \E d \in Deleters :
         EntreOsCommits(d) /\ del[d].id = resposta.req.PessoaId
    /\ Find(categorias, resposta.req.CategoriaId) # {}

(* C21: a category leaves the store only in the sweep commit of a          *)
(* successful DeletePessoa, and only if no transaction references it when  *)
(* that sweep runs; no other step removes or alters a category, so a       *)
(* category that has a transaction at every sweep stays.                   *)
C21_CategoriaSoSaiNoSweep ==
    [][\A c \in categorias :
         /\ \A e \in categorias' : e.Id = c.Id => e = c
         /\ c \notin categorias' =>
              /\ \E d \in Deleters : VarreuCategorias(d)
              /\ \A t \in transacoes : t.CategoriaId # c.Id]_vars

(* A DeletePessoa succeeded; of two categories created, the one a stored   *)
(* transaction references is still stored and the other was removed.       *)
C21_Witness ==
    /\ AposDeletePessoa
    /\ proxCategoriaId = 3
    /\ Cardinality(categorias) = 1
    /\ resposta.removidas = 1
    /\ \A c \in categorias : \E t \in transacoes : t.CategoriaId = c.Id

(* C22: categories are permanent: a category that is in the store stays    *)
(* in the store, whatever the step.                                        *)
C22_CategoriasPermanentes ==
    [][\A c \in categorias : c \in categorias']_vars

(* What the caller receives of an error: the status and the message.       *)
Erro(r) == <<r.status, r.mensagem>>
EhErro(r) == r.status >= 400 /\ r.mensagem # ""

(* The response answers a PostTransacao or a DeletePessoa.                 *)
Respondida(r) == r.op \in {"PostTransacao", "DeletePessoa"} /\ r.status # 0

(* The failure case of a response of PostTransacao or DeletePessoa, read   *)
(* from its request and the store the handler saw.                         *)
Caso(r, ps, cs) ==
    IF r.op = "PostTransacao" THEN PrimeiraViolacao(r.req, ps, cs)
    ELSE IF r.op = "DeletePessoa" /\ r.status # 200
              /\ \A p \in ps : p.Id # r.req.Id
         THEN "Deleter.NotFound(person)"
    ELSE "Accepted"

(* The error PostTransacao answers a request with in a store, when one of  *)
(* its tests fails there; the error DeletePessoa answers with for a key    *)
(* that is not in the table.                                               *)
ErroDaTransacao(t, ps, cs) ==
    LET msg == AdmissaoAtePessoa(t, ps) IN
    <<400, IF msg # "" THEN msg ELSE AdmissaoCategoria(t, cs)>>
ErroDoDelete == <<404, MsgPessoa>>

(* C23: every rejected PostTransacao and every failed DeletePessoa answers *)
(* with an error, and two errors of different cases (invalid input,        *)
(* person not found, minor income, category not found, category mismatch,  *)
(* the deleter's not found) differ in status or message.  A failure leaves *)
(* the store as it was and its error is the one ErroDaTransacao or         *)
(* ErroDoDelete gives for the request; it is compared with the error of    *)
(* every request that fails in the same store in another case.             *)
C23_ErrosDistinguiveis ==
    [][(/\ Respondida(resposta')
        /\ Caso(resposta', pessoas, categorias) # "Accepted")
       => /\ EhErro(resposta')
          /\ store' = store
          /\ Erro(resposta') =
               IF resposta'.op = "PostTransacao"
               THEN ErroDaTransacao(resposta'.req, pessoas, categorias)
               ELSE ErroDoDelete
          /\ \A t \in TransacaoRequests :
               PrimeiraViolacao(t, pessoas, categorias)
                  \notin {"Accepted", Caso(resposta', pessoas, categorias)}
               => ErroDaTransacao(t, pessoas, categorias) # Erro(resposta')
          /\ (/\ \E id \in PessoaIds : Find(pessoas, id) = {}
              /\ Caso(resposta', pessoas, categorias)
                   # "Deleter.NotFound(person)")
               => ErroDoDelete # Erro(resposta')]_vars

(* PostTransacao answered that the category does not exist, in a store in  *)
(* which each of the five other cases has a request that fails in it: a    *)
(* person is missing, a person is under 18 and a category is there whose   *)
(* purpose excludes a kind.                                                *)
C23_Witness ==
    /\ resposta.op = "PostTransacao"
    /\ Erro(resposta) = <<400, MsgCategoria>>
    /\ \A caso \in {"InvalidInput", "NotFound(person)", "Forbidden(minorIncome)",
                    "Forbidden(categoryMismatch)"} :
         \E t \in TransacaoRequests :
            PrimeiraViolacao(t, pessoas, categorias) = caso
    /\ \E id \in PessoaIds : Find(pessoas, id) = {}

(* The totals of a report body: per group, in list order, and grand.      *)
TotaisDoCorpo(op, corpo) ==
    LET grupos == IF op = "GetTotaisPorPessoa" THEN corpo.pessoas
                  ELSE corpo.categorias
    IN <<[i \in 1..Len(grupos) |->
            <<grupos[i].totalReceitas, grupos[i].totalDespesas,
              grupos[i].saldo>>],
         corpo.totalGeral>>

(* What a call of the report returns for a store                           *)
RelatorioDe(op, ps, cs, txs) ==
    IF op = "GetTotaisPorPessoa" THEN RelatorioPorPessoa(ps, txs)
    ELSE RelatorioPorCategoria(cs, txs)

(* C24: the two reports are pure reads: a report step leaves people,       *)
(* categories, transactions and the key counters as they were; and a       *)
(* report step that follows a report with no write in between finds the    *)
(* totals of the report on display unchanged, for the same report they     *)
(* are the totals a second call returns.                                   *)
C24_RelatoriosSaoLeituras ==
    [][resposta'.op \in {"GetTotaisPorPessoa", "GetTotaisPorCategoria"}
       => /\ store' = store
          /\ <<proxPessoaId, proxCategoriaId, proxTransacaoId>>'
               = <<proxPessoaId, proxCategoriaId, proxTransacaoId>>
          /\ resposta'.status = 200
          /\ resposta.op \in {"GetTotaisPorPessoa", "GetTotaisPorCategoria"}
               => TotaisDoCorpo(resposta.op,
                                RelatorioDe(resposta.op, pessoas',
                                            categorias', transacoes'))
                    = TotaisDoCorpo(resposta.op, resposta.corpo)]_vars

(* A report by person is on display with an expense and no income stored,  *)
(* and categories without transactions in the store.                       *)
C24_Witness ==
    /\ AposRelatorioPorPessoa
    /\ resposta.corpo.totalGeral.totalDespesas > 0
    /\ resposta.corpo.totalGeral.totalReceitas = 0
    /\ \E c \in categorias : \A t \in transacoes : t.CategoriaId # c.Id

(* The category tests of PostTransacao pass for the kind and the category  *)
CompativelNoBackend(tipo, categoria) ==
    /\ ~DespesaEmCategoriaDeReceita([Tipo |-> tipo], categoria)
    /\ ~ReceitaEmCategoriaDeDespesa([Tipo |-> tipo], categoria)

(* C25: for every kind of {Despesa, Receita} and every purpose of          *)
(* {Despesa, Receita, Ambas}, getCategoriasCompativeis keeps a category    *)
(* if and only if the category tests of PostTransacao pass for that kind   *)
(* and purpose; so the options of the category select are the loaded       *)
(* categories the back end accepts for the selected kind.                  *)
C25_FormOfereceAsCompativeis ==
    /\ \A tipo \in tiposValidos : \A f \in finalidadesValidas :
         LET cat == [Id |-> 1, Descricao |-> Luz, Finalidade |-> f] IN
         (cat \in getCategoriasCompativeis({cat}, tipo))
            <=> CompativelNoBackend(tipo, cat)
    /\ \A tipo \in tiposValidos :
         getCategoriasCompativeis(fCategorias, tipo)
            = {cat \in fCategorias : CompativelNoBackend(tipo, cat)}

(* The form shows, for the kind Receita, no option: the loaded category    *)
(* has the purpose Despesa.                                                *)
C25_Witness ==
    /\ fPc = "pronto"
    /\ fTipo = Receita
    /\ {cat.Finalidade : cat \in fCategorias} = {Despesa}
    /\ getCategoriasCompativeis(fCategorias, fTipo) = {}

(* The kind and the category go together: the purpose is Ambas or the kind *)
Combinam(tipo, cat) == cat.Finalidade = Ambas \/ cat.Finalidade = tipo

(* C29: in the transaction form, after any sequence of its events, the     *)
(* category that is selected, in the loaded list and in the store, has the *)
(* purpose Ambas or the selected kind; so has the category of a request    *)
(* the form has sent with the kind of that request, and no submit of the   *)
(* form is answered with a category/kind mismatch.                         *)
C29_CategoriaSelecionadaCompativel ==
    /\ fCategoriaId # 0 =>
         \A cat \in fCategorias \cup categorias :
            cat.Id = fCategoriaId => Combinam(fTipo, cat)
    /\ \A e \in BagToSet(fEnvios) : \A cat \in fCategorias \cup categorias :
         (e.pc # "respondido" /\ cat.Id = e.req.CategoriaId)
            => Combinam(e.req.Tipo, cat)
    /\ \A e \in BagToSet(fEnvios) :
         e.mensagem \notin {MsgSoReceitas, MsgSoDespesas}

(* The form had two POSTs in flight and the server handled them side by    *)
(* side.  The kind was changed to Receita, a category of purpose Ambas was *)
(* chosen and the submit was accepted: the answer to one of the two is on  *)
(* its way to the form, the server is still at the other, and the category *)
(* is still selected.                                                      *)
C29_Witness ==
    /\ BagCardinality(fEnvios) = 2
    /\ \E e \in BagToSet(fEnvios) : e.status = 201 /\ e.de = "form"
    /\ \E e \in BagToSet(fEnvios) :
         e.pc = "responder" /\ e.req.Tipo = Receita
    /\ fTipo = Receita
    /\ fCategoriaId # 0
    /\ \E cat \in fCategorias \cap categorias :
         cat.Id = fCategoriaId /\ cat.Finalidade = Ambas
    /\ \A t \in transacoes :
         t.Tipo = Receita /\ t.CategoriaId = fCategoriaId
    /\ Cardinality(transacoes) = 2

(* C26: with PostTransacao for a category running beside the sweep of a    *)
(* DeletePessoa, so that the read of the category by the one and the       *)
(* has-transactions read by the other both come before either commit, no   *)
(* state holds a transaction whose category is not in the store, and no    *)
(* step removes a category that a stored transaction references.           *)
C26_SemTransacaoDeCategoriaRemovida ==
    [][/\ \A t \in transacoes' : CategoriaExiste(t, categorias')
       /\ \A c \in categorias :
            c \notin categorias' =>
               \A t \in transacoes \cup transacoes' : t.CategoriaId # c.Id]_vars

(* The race happened: PostTransacao found the category, the sweep found no *)
(* transaction of it and committed its removal, and the insert was then    *)
(* refused by the database; the person of the request is stored.           *)
C26_Witness ==
    /\ AposPostTransacao
    /\ resposta.status = 500
    /\ Find(pessoas, resposta.req.PessoaId) # {}
    /\ Find(categorias, resposta.req.CategoriaId) = {}
    /\ resposta.req.CategoriaId < proxCategoriaId

(* Every category in the store has a transaction.                          *)
SemOrfas == \A c \in categorias : \E t \in transacoes : t.CategoriaId = c.Id

(* C27: the sweep is idempotent.  Right after a successful DeletePessoa    *)
(* every remaining category has a transaction; this stays so through any   *)
(* step that adds no category and removes no transaction (the first        *)
(* commit of the delete of a person without transactions is one); and the  *)
(* sweep of a DeletePessoa that runs over such a store removes no category *)
(* and reports 0.                                                          *)
C27_SweepIdempotente ==
    [][/\ (\E d \in Deleters : VarreuCategorias(d)) => SemOrfas'
       /\ (/\ SemOrfas
           /\ categorias' \subseteq categorias
           /\ transacoes \subseteq transacoes')
          => SemOrfas'
       /\ \A d \in Deleters :
            (SemOrfas /\ del[d].pc = "commit" /\ del'[d].pc = "ocioso")
            => /\ categorias' = categorias
               /\ resposta'.status = 200
               /\ resposta'.removidas = 0]_vars

(* A person without transactions was deleted; the categories in the store  *)
(* have transactions of the other person and the count reported is 0.      *)
C27_Witness ==
    /\ AposDeletePessoa
    /\ resposta.removidas = 0
    /\ categorias # {}
    /\ proxTransacaoId = Cardinality(transacoes) + 1
    /\ proxCategoriaId = Cardinality(categorias) + 1

(* The store as a record, the store the removal of the person with key id  *)
(* leaves, the store and the count the removal of the categories without   *)
(* transactions leaves, and the two in a row.                              *)
Loja == [pessoas |-> pessoas, categorias |-> categorias,
         transacoes |-> transacoes]
RemoverPessoa(s, id) ==
    [s EXCEPT !.pessoas = {p \in s.pessoas : p.Id # id},
              !.transacoes = {t \in s.transacoes : t.PessoaId # id}]
Varrer(s) ==
    LET orfas == {c \in s.categorias :
                    \A t \in s.transacoes : t.CategoriaId # c.Id} IN
    [loja |-> [s EXCEPT !.categorias = s.categorias \ orfas],
     removidas |-> Cardinality(orfas)]
Deletar(s, id) == Varrer(RemoverPessoa(s, id))

(* Deleting a and then b from the store s                                  *)
DeletarDuas(s, a, b) ==
    LET primeira == Deletar(s, a)
        segunda == Deletar(primeira.loja, b)
    IN [loja |-> segunda.loja,
        removidas |-> primeira.removidas + segunda.removidas]

(* C28: deleting two distinct stored people commutes: from any store the   *)
(* handlers reach, DeletePessoa(a) then DeletePessoa(b) and the other      *)
(* order, with nothing in between, end with the same people, transactions  *)
(* and categories, and the two counts reported add up to the same total.   *)
(* The first two conjuncts say that the commits of DeletePessoa are        *)
(* RemoverPessoa and Varrer; the third looks at every store a step leaves  *)
(* with no handler half done.                                              *)
C28_DelecoesComutam ==
    [][/\ \A d \in Deleters :
            /\ RemoveuPessoa(d) => Loja' = RemoverPessoa(Loja, del[d].id)
            /\ (del[d].pc = "commit" /\ del'[d].pc = "ocioso")
                 => /\ Loja' = Varrer(Loja).loja
                    /\ resposta'.status = 200
                    /\ resposta'.removidas = Varrer(Loja).removidas
       /\ Ocioso'
          => \A a, b \in {p.Id : p \in pessoas'} :
                a # b => DeletarDuas(Loja', a, b) = DeletarDuas(Loja', b, a)]_vars

(* Two people who each owned the only transaction of a category were       *)
(* deleted one after the other; each delete removed one category.          *)
C28_Witness ==
    /\ AposDeletePessoa
    /\ pessoas = {}
    /\ categorias = {}
    /\ proxPessoaId = 3
    /\ proxTransacaoId = 3
    /\ proxCategoriaId = 3
    /\ resposta.removidas = 1

====
